---- MODULE Spec2Model ----
(***************************************************************************)
(* A model of the hashing kernels of arrow/compute/kernels/hash.cc: the    *)
(* open-addressed memo table of HashTableKernel<primitive>, the Unique and *)
(* DictEncode actions, the HashKernelImpl wrapper with its mutex, and the  *)
(* invocation layer (InvokeHash, Unique, DictionaryEncode).                *)
(*                                                                         *)
(* Two specifications:                                                     *)
(*   Spec        one kernel instance used by client threads through        *)
(*               Append / Flush / GetDictionary; Append advances one       *)
(*               element at a time so that calls of other threads          *)
(*               interleave where the code lets them.                      *)
(*   SpecInvoke  one run of Unique(datum) or DictionaryEncode(datum) on a  *)
(*               fresh kernel, one Call per chunk.                         *)
(*                                                                         *)
(* C arrays are 0-based: hash_slots_ is a function on 0..size-1, and       *)
(* dict_.values[i] is dict_values[i + 1].                                  *)
(***************************************************************************)
EXTENDS Integers, Sequences, FiniteSets, TLC

\* ------------------------------------------------------------------------
\* Bounds of the model

\* log2 of the initial table size (hash.cc:40 has 1 << 10).
InitialSizeLog2 == 2

\* Width of a hash value in bits (HashUtil::Hash yields 32 bits).
HashBits == 4

\* Element values are 0..MaxValue.
MaxValue == 3

\* Elements appended to one kernel over its life.
MaxTotal == 4

\* Allocations of the memory pool that may fail in one run.
MaxAllocFailures == 1

\* Flush calls and GetDictionary calls of the clients of Spec.
MaxFlush == 1

MaxGetDictionary == 1

\* Append calls on one kernel.
MaxAppends == 2

\* Chunks of a chunked array given to Unique / DictionaryEncode.
MaxChunks == 3

\* ------------------------------------------------------------------------
\* Program constants

kInitialHashTableSize == 2 ^ InitialSizeLog2

\* std::numeric_limits<int32_t>::max()
kHashSlotEmpty == 2147483647

\* kMaxHashTableLoad = 0.7, as the fraction kMaxHashTableLoadNum / ...Den
kMaxHashTableLoadNum == 7

kMaxHashTableLoadDen == 10

\* ------------------------------------------------------------------------
\* Values

\* the marker of a null element and of a null index (values and indices are >= 0)
Null == 0 - 1

Values == 0 .. MaxValue

Elems == Values \cup {Null}

\* The multiplier and the offset of the model's hash function.
HashMul == 4

HashAdd == 3

\* results of a probe that finds no slot
NoSlot == 0 - 1

OutOfBounds == 0 - 2

StatusOK == [code |-> "OK", msg |-> ""]

StatusInvalid == [code |-> "Invalid", msg |-> "Encountered new dictionary value"]

StatusOutOfMemory == [code |-> "OutOfMemory", msg |-> "malloc failed"]

\* CHECK_IMPLEMENTED(hasher, "dictionary-encode", type)
StatusNotImplemented == [code |-> "NotImplemented", msg |-> "dictionary-encode not implemented"]

\* j & mask for a mask of the form 2^n - 1
BitAnd(j, mask) == j % (mask + 1)

\* The types with a case in the switch of GetUniqueKernel and of
\* GetDictionaryEncodeKernel: NullType, handled by HashTableKernel<null>,
\* and the ten numeric types, handled by HashTableKernel<primitive>.
NullTypes == {"Null"}

PrimitiveCTypes == {"UInt8", "Int8", "UInt16", "Int16", "UInt32", "Int32",
                    "UInt64", "Int64", "Float", "Double"}

\* The types the kernel instances of Spec and SpecInvoke are made for: Null,
\* and Int32 for the numeric types, which all instantiate one template.
KernelTypes == {"Null", "Int32"}

\* An array of NullType has null elements only.
ElemsOf(type) == IF type \in NullTypes THEN {Null} ELSE Elems

\* ------------------------------------------------------------------------
\* State

VARIABLES
    \* template parameters of the kernel: the Type (its type id), the Action
    \* and its allow_expand
    type_id, action, allow_expand,
    \* HashTable members
    initialized_, hash_slots_, hash_table_size_, mod_bitmask_,
    \* HashDictionary members: buffer (TRUE when it is not null),
    \* values[0 .. size-1] and capacity
    dict_buffer, dict_values, dict_capacity,
    \* DictEncodeImpl::indices_builder_: its elements and reserved capacity
    indices_builder_, builder_capacity,
    \* the writes that have landed outside their buffer: "rehash" (the new
    \* slot array), "dict" (dict_.values), "builder" (indices_builder_)
    oob_writes,
    \* allocations that have failed so far
    alloc_failures,
    \* HashKernelImpl::lock_ : TRUE while held
    lock_,
    \* the Append in progress: [active, n, i, res], Idle when there is none
    cur,
    \* the status the last finished Append returned
    status,
    \* "running", "crashed", "hung" or "exception"
    proc,
    \* what Flush has pushed to its out vectors, what GetDictionary returned
    flushed, dictionaries,
    \* history: every element the inner loop has observed, with the index
    \* passed to the Observe hook and the number of its Append call; the
    \* number of Append calls; the Append calls that failed, and how
    log, napp, failed,
    \* invocation layer (SpecInvoke)
    fn, kind, chunks, kernel_outputs, phase, result,
    \* the array Cast has made of a dictionary array (SpecCast)
    cast_result

kernelVars == <<initialized_, hash_slots_, hash_table_size_, mod_bitmask_,
                dict_buffer, dict_values, dict_capacity, indices_builder_, builder_capacity,
                oob_writes, alloc_failures, log>>

invokeVars == <<fn, kind, chunks, kernel_outputs, phase, result, cast_result>>

\* The variables of the hash kernels and of their invocation layer.
hashVars == <<type_id, action, allow_expand, kernelVars, lock_, cur, status, proc,
              flushed, dictionaries, napp, failed, invokeVars>>

\* parquet::DictEncoder and parquet::DictionaryDecoder (SpecDict)
VARIABLES
    \* DType of the encoder and decoder, and descr->type_length()
    dtype, descr_type_length,
    \* DictEncoder members; memo_table_ is the sequence of its distinct
    \* values in insertion order
    type_length_, memo_table_, buffered_indices_, dict_encoded_size_,
    \* "running", "crashed" or "exception"
    enc_proc,
    \* history: the values whose indices are buffered; the index pages
    \* written so far, each with the values it stands for; the last call of
    \* WriteIndices or FlushValues and its result; the numbers of calls
    put_values, pages, last_write, calls,
    \* the DictionaryDecoder
    dec

dictVars == <<dtype, descr_type_length, type_length_, memo_table_,
              buffered_indices_, dict_encoded_size_, enc_proc, put_values, pages,
              last_write, calls, dec>>

\* The spaced calls, the byte array dictionaries and the delta decoders
VARIABLES
    \* history: the last call of PutSpaced, Decode or DecodeSpaced, with its
    \* arguments, the state before and after, and what it returned
    last_call,
    \* a DictionaryDecoder of byte arrays with its memory: the dictionary
    \* page, byte_array_data_, and dictionary_ as lengths and pointers
    bdict,
    \* a DeltaBitPackDecoder, a DeltaLengthByteArrayDecoder and a
    \* DeltaByteArrayDecoder, each with its page
    dbp, dlba, dba,
    \* a hash kernel for a variable-length binary type
    bhash

moreVars == <<last_call, bdict, dbp, dlba, dba, bhash>>

vars == <<hashVars, dictVars, moreVars>>

\* The kernel's members as one record, for the operators below.
K == [type_id |-> type_id, action |-> action, allow_expand |-> allow_expand,
      initialized_ |-> initialized_, hash_slots_ |-> hash_slots_,
      hash_table_size_ |-> hash_table_size_, mod_bitmask_ |-> mod_bitmask_,
      dict_buffer |-> dict_buffer,
      dict_values |-> dict_values, dict_capacity |-> dict_capacity,
      indices_builder_ |-> indices_builder_, builder_capacity |-> builder_capacity,
      oob_writes |-> oob_writes, alloc_failures |-> alloc_failures,
      log |-> log, napp |-> napp, ub |-> {}]

SetK(k) ==
    /\ initialized_' = k.initialized_
    /\ hash_slots_' = k.hash_slots_
    /\ hash_table_size_' = k.hash_table_size_
    /\ mod_bitmask_' = k.mod_bitmask_
    /\ dict_buffer' = k.dict_buffer
    /\ dict_values' = k.dict_values
    /\ dict_capacity' = k.dict_capacity
    /\ indices_builder_' = k.indices_builder_
    /\ builder_capacity' = k.builder_capacity
    /\ oob_writes' = k.oob_writes
    /\ alloc_failures' = k.alloc_failures
    /\ log' = k.log

\* ------------------------------------------------------------------------
\* HashTable

\* NewHashTable: size slots, all kHashSlotEmpty
NewHashTable(size) == [j \in 0 .. (size - 1) |-> kHashSlotEmpty]

\* HashTableKernel<primitive>::Init: dict_.Init (capacity kInitialHashTableSize)
\* and HashTable::Init(kInitialHashTableSize)
KernelInit(k) ==
    [k EXCEPT !.dict_buffer = TRUE,
              !.dict_values = <<>>,
              !.dict_capacity = kInitialHashTableSize,
              !.hash_slots_ = NewHashTable(kInitialHashTableSize),
              !.hash_table_size_ = kInitialHashTableSize,
              !.mod_bitmask_ = kInitialHashTableSize - 1,
              !.initialized_ = TRUE]

\* HashUtil::Hash(&value, sizeof(T), 0) is a fixed function of the value's
\* bytes with HashBits bits; HashUtil is not part of these sources, and the
\* model takes a function under which values collide.
HashValue(value) == (HashMul * value + HashAdd) % (2 ^ HashBits)

\* ------------------------------------------------------------------------
\* The Observe hooks of the two actions

\* Int32Builder::UnsafeAppend / UnsafeAppendToBitmap write without checking
\* the capacity: a write past the reserved capacity is undefined.
UnsafeAppend(k, x) ==
    [k EXCEPT !.indices_builder_ = Append(@, x),
              !.ub = IF Len(k.indices_builder_) >= k.builder_capacity
                     THEN @ \cup {"builder"} ELSE @]

ObserveNull(k) ==
    IF k.action = "DictEncode" THEN UnsafeAppend(k, Null) ELSE k

ObserveFound(k, slot) ==
    IF k.action = "DictEncode" THEN UnsafeAppend(k, slot) ELSE k

\* An ObserveNotFound that hands on the slot after the one it was given.
ObserveNotFoundNextSlot(k, slot) == ObserveFound(k, slot + 1)

ObserveNotFound(k, slot) == ObserveFound(k, slot)

\* Reserve(length): indices_builder_.Reserve for DictEncode, nothing for Unique
Reserve(k, length) ==
    IF k.action = "DictEncode" /\ Len(k.indices_builder_) + length > k.builder_capacity
    THEN [k EXCEPT !.builder_capacity = Len(k.indices_builder_) + length]
    ELSE k

\* history: the element observed and the index handed to the hook
Logged(k, e, idx) ==
    [k EXCEPT !.log = Append(@, [e |-> e, idx |-> idx, app |-> k.napp])]

\* ------------------------------------------------------------------------
\* DoubleTableSize

\* The probe of the rehash: from j forward to an empty slot of the new table,
\* going back to 0 when j equals hash_table_size_, the size of the old table.
RECURSIVE RehashProbe(_, _, _, _, _)
RehashProbe(new_hash_slots, new_size, old_size, j, n) ==
    IF j >= new_size THEN OutOfBounds
    ELSE IF new_hash_slots[j] = kHashSlotEmpty THEN j
    ELSE IF n >= new_size THEN NoSlot
    ELSE RehashProbe(new_hash_slots, new_size, old_size,
                     IF j + 1 = old_size THEN 0 ELSE j + 1, n + 1)

\* The loop over the old slots i = 0 .. hash_table_size_ - 1.
RECURSIVE RehashFrom(_, _, _, _)
RehashFrom(k, new_size, i, acc) ==
    IF i >= k.hash_table_size_ \/ acc.hang THEN acc
    ELSE LET index == k.hash_slots_[i] IN
         IF index = kHashSlotEmpty THEN RehashFrom(k, new_size, i + 1, acc)
         ELSE LET value == k.dict_values[index + 1]
                  j0 == BitAnd(HashValue(value), new_size - 1)
                  j == RehashProbe(acc.slots, new_size, k.hash_table_size_, j0, 0)
              IN IF j = NoSlot
                 THEN [acc EXCEPT !.hang = TRUE]
                 ELSE IF j = OutOfBounds
                 THEN RehashFrom(k, new_size, i + 1, [acc EXCEPT !.oob = TRUE])
                 ELSE RehashFrom(k, new_size, i + 1,
                                 [acc EXCEPT !.slots[j] = index])

\* An allocation may fail while fewer than MaxAllocFailures have.
MayFail(k) == k.alloc_failures < MaxAllocFailures

AllocFailed(k) == [k EXCEPT !.alloc_failures = @ + 1]

\* DoubleTableSize: every outcome [k, res] it can have.  res is "ok",
\* "error" (a failed allocation's status) or "hang" (a probe that never ends).
DoubleTableSize(k) ==
    LET new_size == k.hash_table_size_ * 2
        r == RehashFrom(k, new_size, 0,
                        [slots |-> NewHashTable(new_size), oob |-> FALSE, hang |-> FALSE])
        k1 == [k EXCEPT !.hash_slots_ = r.slots,
                        !.hash_table_size_ = new_size,
                        !.mod_bitmask_ = new_size - 1,
                        !.ub = IF r.oob THEN @ \cup {"rehash"} ELSE @]
    IN  \* NewHashTable fails: nothing has changed
        (IF MayFail(k) THEN {[k |-> AllocFailed(k), res |-> "error"]} ELSE {})
        \cup
        (IF r.hang THEN {[k |-> k, res |-> "hang"]}
         ELSE \* dict_.Resize(new_size) succeeds or fails
              {[k |-> [k1 EXCEPT !.dict_capacity = new_size], res |-> "ok"]}
              \cup
              (IF MayFail(k) THEN {[k |-> AllocFailed(k1), res |-> "error"]} ELSE {}))

\* UniqueImpl::DoubleSize and DictEncodeImpl::DoubleSize
DoubleSize(k) == DoubleTableSize(k)

\* ------------------------------------------------------------------------
\* HASH_INNER_LOOP

\* The probe loop: from j forward, wrapping at hash_table_size_, to a slot
\* that is empty or holds the index of an equal value.  NoSlot: there is none
\* and the loop never ends.
RECURSIVE ProbeLoop(_, _, _, _)
ProbeLoop(k, value, j, n) ==
    LET slot == k.hash_slots_[j] IN
    IF slot = kHashSlotEmpty THEN j
    ELSE IF k.dict_values[slot + 1] = value THEN j
    ELSE IF n >= k.hash_table_size_ THEN NoSlot
    ELSE ProbeLoop(k, value, IF j + 1 = k.hash_table_size_ THEN 0 ELSE j + 1, n + 1)

\* A store that puts the value in front of the values stored before.
DictStoreAtFront(values, value) == <<value>> \o values

\* dict_.values[dict_.size++] = value
DictStore(values, value) == Append(values, value)

\* The insertion of a value that was not found, at slot position j.
InsertNew(k, value, j) ==
    LET slot == Len(k.dict_values)
        k1 == [k EXCEPT !.hash_slots_[j] = slot,
                        !.dict_values = DictStore(@, value),
                        !.ub = IF slot >= k.dict_capacity THEN @ \cup {"dict"} ELSE @]
        k2 == Logged(ObserveNotFound(k1, slot), value, slot)
    IN  IF kMaxHashTableLoadDen * Len(k2.dict_values)
               > kMaxHashTableLoadNum * k2.hash_table_size_
        THEN DoubleSize(k2)
        ELSE {[k |-> k2, res |-> "ok"]}

\* Every outcome [k, res] of the inner loop for one non-null value; res is
\* "ok", "throw" (HashException), "error" or "hang".
HashInnerLoop(k, value) ==
    LET j == ProbeLoop(k, value, BitAnd(HashValue(value), k.mod_bitmask_), 0) IN
    IF j = NoSlot THEN {[k |-> k, res |-> "hang"]}
    ELSE LET slot == k.hash_slots_[j] IN
         IF slot = kHashSlotEmpty
         THEN IF ~k.allow_expand
              THEN {[k |-> k, res |-> "throw"]}
              ELSE InsertNew(k, value, j)
         ELSE {[k |-> Logged(ObserveFound(k, slot), value, slot), res |-> "ok"]}

\* A step that wrote outside a buffer (k.ub) either goes on, with the heap
\* damaged, or the process dies.
WithUndefined(outcomes) ==
    UNION { IF o.k.ub # {}
            THEN LET k1 == [o.k EXCEPT !.ub = {}, !.oob_writes = @ \cup o.k.ub]
                 IN {[k |-> k1, res |-> o.res], [k |-> k1, res |-> "crash"]}
            ELSE {o} : o \in outcomes }

\* The body of Append's for loop for element e.  The loop of
\* HashTableKernel<null> is ObserveNull for every element.
AppendElem(k, e) ==
    WithUndefined(IF e = Null \/ k.type_id \in NullTypes
                  THEN {[k |-> Logged(ObserveNull(k), Null, Null), res |-> "ok"]}
                  ELSE HashInnerLoop(k, e))

\* HashTableKernel<primitive>::Append up to its loop: Init on first use (its
\* allocations may fail, after dict_.Init has made dict_.buffer), then
\* Reserve.  The Init of HashTableKernel<null> does nothing: initialized_
\* stays false and there is no table.
AppendEnter(k, length) ==
    LET k1 == IF k.initialized_ \/ k.type_id \in NullTypes THEN k ELSE KernelInit(k)
        k2 == Reserve(k1, length)
    IN  {[k |-> k2, res |-> "ok"]}
        \cup \* Init fails
        (IF ~k.initialized_ /\ k.type_id \notin NullTypes /\ MayFail(k)
         THEN {[k |-> AllocFailed([k EXCEPT !.dict_buffer = TRUE]), res |-> "error"]}
         ELSE {})
        \cup \* Reserve fails
        (IF k2 # k1 /\ MayFail(k)
         THEN {[k |-> AllocFailed(k1), res |-> "error"]}
         ELSE {})

\* The loop of Append from element i of arr on.
RECURSIVE AppendLoop(_, _, _)
AppendLoop(k, arr, i) ==
    IF i > Len(arr) THEN {[k |-> k, res |-> "ok"]}
    ELSE UNION { IF o.res = "ok" THEN AppendLoop(o.k, arr, i + 1) ELSE {o}
                 : o \in AppendElem(k, arr[i]) }

\* HashTableKernel<primitive>::Append(arr), whole
HashTableAppend(k, arr) ==
    UNION { IF o.res = "ok" THEN AppendLoop(o.k, arr, 1) ELSE {o}
            : o \in AppendEnter(k, Len(arr)) }

\* An Append without the catch clause: the HashException leaves it.
AppendResultNoCatch(res) ==
    [status |-> CASE res = "ok" -> StatusOK
                  [] res = "error" -> StatusOutOfMemory
                  [] res = "throw" -> [code |-> "none", msg |-> ""],
     escaped |-> res = "throw",
     lock_ |-> FALSE]

\* HashKernelImpl::Append: what the caller gets for the hasher's result res
\* ("ok", "error" or "throw").  The status of the hasher is returned; a
\* HashException is caught and turned into Status(e.code(), e.what()).
\* escaped: the exception leaves Append.  The lock_guard releases lock_ on
\* every way out.
AppendResult(res) ==
    [status |-> CASE res = "ok" -> StatusOK
                  [] res = "error" -> StatusOutOfMemory
                  [] res = "throw" -> StatusInvalid,
     escaped |-> FALSE,
     lock_ |-> FALSE]

\* ------------------------------------------------------------------------
\* Spec: one kernel instance and its clients

NoStatus == [code |-> "none", msg |-> ""]

Idle == [active |-> FALSE, n |-> 0, i |-> 0, res |-> "ok"]

NoResult == [status |-> NoStatus, dictionary |-> <<>>, chunks |-> <<>>]

\* No call of WriteIndices or FlushValues yet.
NoWrite == [op |-> "none", buffer_len |-> 0, result |-> 0, buffer |-> <<>>,
            oob |-> FALSE, estimated |-> 0, indices |-> <<>>, values |-> <<>>,
            memo |-> <<>>, size |-> 0, width |-> 0,
            after |-> [indices |-> <<>>, memo |-> <<>>, size |-> 0]]

NoCalls == [put |-> 0, flush |-> 0, write |-> 0, set_type_length |-> 0, decode |-> 0,
            spaced |-> 0]

\* A DictionaryDecoder as its constructor leaves it.
NoDecoder == [stage |-> "none", dictionary_ |-> <<>>, num_values_ |-> 0,
              bit_width |-> 0, data |-> <<>>, pos |-> 0, page |-> 0,
              out |-> <<>>, eof |-> FALSE, ret |-> 0]

\* No call of PutSpaced, Decode or DecodeSpaced yet.
NoCall == [op |-> "none"]

\* No byte array decoder.
NoByteDict == [stage |-> "none", t |-> "none", tl |-> 0, page |-> <<>>, source |-> <<>>,
               byte_array_data_ |-> <<>>, dictionary_ |-> <<>>, values |-> <<>>]

\* No delta decoder.
NoDelta == [status |-> "none"]

\* The variables the specification at hand does not use.
NoMore ==
    /\ last_call = NoCall /\ bdict = NoByteDict
    /\ dbp = NoDelta /\ dlba = NoDelta /\ dba = NoDelta
    /\ bhash = NoDelta

\* The specifications of the hash kernels have no encoder.
NoDictEncoder ==
    /\ NoMore
    /\ dtype = "none" /\ descr_type_length = 0 - 1
    /\ type_length_ = 0 - 1 /\ memo_table_ = <<>> /\ buffered_indices_ = <<>>
    /\ dict_encoded_size_ = 0 /\ enc_proc = "running"
    /\ put_values = <<>> /\ pages = <<>> /\ last_write = NoWrite
    /\ calls = NoCalls /\ dec = NoDecoder

\* A kernel as its constructor leaves it.
FreshKernel ==
    /\ initialized_ = FALSE
    /\ hash_slots_ = NewHashTable(0)
    /\ hash_table_size_ = 0
    /\ mod_bitmask_ = 0
    /\ dict_buffer = FALSE
    /\ dict_values = <<>>
    /\ dict_capacity = 0
    /\ indices_builder_ = <<>>
    /\ builder_capacity = 0
    /\ oob_writes = {}
    /\ alloc_failures = 0
    /\ lock_ = FALSE
    /\ cur = Idle
    /\ status = NoStatus
    /\ proc = "running"
    /\ flushed = <<>>
    /\ dictionaries = <<>>
    /\ log = <<>>
    /\ napp = 0
    /\ failed = {}

Init ==
    /\ type_id \in KernelTypes
    /\ action \in {"Unique", "DictEncode"}
    /\ allow_expand \in BOOLEAN
    /\ FreshKernel
    /\ fn = "none" /\ kind = "none" /\ chunks = <<>> /\ kernel_outputs = <<>>
    /\ phase = "none" /\ result = NoResult /\ cast_result = <<>>
    /\ NoDictEncoder

ProcAfter(res) ==
    CASE res = "crash" -> "crashed"
      [] res = "hang" -> "hung"
      [] OTHER -> "running"

\* HashKernelImpl::Append, entry: take lock_, then the hasher's Append up
\* to its loop.  n is arr.length.
AppendBegin ==
    /\ proc = "running" /\ ~lock_
    /\ napp < MaxAppends
    /\ \E n \in 0 .. (MaxTotal - Len(log)) :
         \E o \in AppendEnter([K EXCEPT !.napp = napp + 1], n) :
            /\ SetK(o.k)
            /\ cur' = [active |-> TRUE, n |-> n, i |-> 1, res |-> o.res]
    /\ lock_' = TRUE
    /\ napp' = napp + 1
    /\ UNCHANGED <<dictVars, moreVars, type_id, action, allow_expand, status, proc, flushed, dictionaries,
                   failed, invokeVars>>

\* One pass of the loop of Append, for element e = arr[i].
AppendStep ==
    /\ proc = "running" /\ cur.active /\ cur.res = "ok" /\ cur.i <= cur.n
    /\ \E e \in ElemsOf(type_id) :
         \E o \in AppendElem(K, e) :
            /\ SetK(o.k)
            /\ cur' = [cur EXCEPT !.i = @ + 1, !.res = o.res]
            /\ proc' = ProcAfter(o.res)
    /\ UNCHANGED <<dictVars, moreVars, type_id, action, allow_expand, lock_, status, flushed, dictionaries,
                   napp, failed, invokeVars>>

\* HashKernelImpl::Append, exit: the loop is over or has failed.
AppendReturn ==
    /\ proc = "running" /\ cur.active
    /\ cur.res \in {"throw", "error"} \/ (cur.res = "ok" /\ cur.i > cur.n)
    /\ LET r == AppendResult(cur.res) IN
         /\ status' = r.status
         /\ lock_' = r.lock_
         /\ proc' = IF r.escaped THEN "exception" ELSE proc
    /\ failed' = IF cur.res = "ok" THEN failed
                  ELSE failed \cup {[app |-> napp, res |-> cur.res]}
    /\ cur' = Idle
    /\ UNCHANGED <<dictVars, moreVars, type_id, action, allow_expand, kernelVars, flushed, dictionaries,
                   napp, invokeVars>>

\* A Flush whose builder keeps its elements.
FlushResultKeepsElements(k) ==
    IF k.action = "DictEncode"
    THEN [k |-> k, out |-> <<k.indices_builder_>>]
    ELSE [k |-> k, out |-> <<>>]

\* DictEncodeImpl::Flush: FinishInternal hands over the builder's elements
\* and leaves the builder empty, with no capacity.  UniqueImpl::Flush does
\* nothing.
FlushResult(k) ==
    IF k.action = "DictEncode"
    THEN [k |-> [k EXCEPT !.indices_builder_ = <<>>, !.builder_capacity = 0],
          out |-> <<k.indices_builder_>>]
    ELSE [k |-> k, out |-> <<>>]

\* HashKernelImpl::Flush: straight to the hasher; lock_ is not taken.
Flush ==
    /\ proc = "running"
    /\ Len(flushed) < MaxFlush
    /\ LET r == FlushResult(K) IN
         /\ SetK(r.k)
         /\ flushed' = flushed \o r.out
    /\ UNCHANGED <<dictVars, moreVars, type_id, action, allow_expand, lock_, cur, status, proc, dictionaries,
                   napp, failed, invokeVars>>

\* HashTableKernel<primitive>::GetDictionary: an array of dict_.size values
\* over dict_.buffer.  dict_.buffer is null until dict_.Init has run.
\* HashTableKernel<null>::GetDictionary: the data of a NullArray of length 0.
GetDictionaryResult(k) ==
    IF k.type_id \in NullTypes THEN [res |-> "ok", length |-> 0]
    ELSE IF ~k.dict_buffer THEN [res |-> "crash", length |-> 0]
    ELSE [res |-> "ok", length |-> Len(k.dict_values)]

\* HashKernelImpl::GetDictionary: straight to the hasher; lock_ is not taken.
GetDictionary ==
    /\ proc = "running"
    /\ Len(dictionaries) < MaxGetDictionary
    /\ LET r == GetDictionaryResult(K) IN
         /\ proc' = ProcAfter(r.res)
         /\ dictionaries' = IF r.res = "ok"
                            THEN Append(dictionaries, [length |-> r.length])
                            ELSE dictionaries
    /\ UNCHANGED <<dictVars, moreVars, type_id, action, allow_expand, kernelVars, lock_, cur, status, flushed,
                   napp, failed, invokeVars>>

Next == AppendBegin \/ AppendStep \/ AppendReturn \/ Flush \/ GetDictionary

Spec == Init /\ [][Next]_vars

\* ------------------------------------------------------------------------
\* SpecInvoke: Unique(datum) and DictionaryEncode(datum)

\* The arrays of the type of at most maxlen elements.
Arrays(type, maxlen) == UNION {[1 .. n -> ElemsOf(type)] : n \in 0 .. maxlen}

\* HashKernelImpl::Call(input, out): Append, and Flush(out) when Append
\* returned OK.  Every outcome [k, res, status, out].
KernelCall(k, input, out) ==
    { IF o.res \in {"crash", "hang"}
      THEN [k |-> o.k, res |-> o.res, status |-> NoStatus, out |-> out]
      ELSE LET r == AppendResult(o.res) IN
           IF r.status = StatusOK
           THEN LET f == FlushResult(o.k) IN
                [k |-> f.k, res |-> "ok", status |-> StatusOK, out |-> out \o f.out]
           ELSE [k |-> o.k, res |-> "failed", status |-> r.status, out |-> out]
      : o \in HashTableAppend(k, input) }

\* InvokeHash after its Calls, and the rest of Unique (f = "Unique") or of
\* DictionaryEncode: GetDictionary, then for DictionaryEncode one
\* DictionaryArray per kernel output, all of dict_type, which is built from
\* indices_outputs[0]; a single array for an ARRAY datum, a chunked array
\* otherwise.
InvokeTail(f, datum_kind, k, indices_outputs) ==
    LET gd == GetDictionaryResult(k)
        dictionary == SubSeq(k.dict_values, 1, gd.length)
        dict_chunks == [j \in 1 .. Len(indices_outputs) |->
                           [indices |-> indices_outputs[j], dictionary |-> dictionary]]
    IN  IF gd.res # "ok" THEN [res |-> "crash", result |-> NoResult]
        ELSE IF f = "Unique"
        THEN [res |-> "ok",
              result |-> [status |-> StatusOK, dictionary |-> dictionary, chunks |-> <<>>]]
        ELSE IF indices_outputs = <<>>
        THEN [res |-> "crash", result |-> NoResult]
        ELSE [res |-> "ok",
              result |-> [status |-> StatusOK, dictionary |-> dictionary,
                          chunks |-> IF datum_kind = "ARRAY"
                                     THEN <<dict_chunks[1]>> ELSE dict_chunks]]

\* GetUniqueKernel makes a UniqueImpl, GetDictionaryEncodeKernel a
\* DictEncodeImpl; both have allow_expand = true.
InitInvoke ==
    /\ type_id \in KernelTypes
    /\ fn \in {"Unique", "DictionaryEncode"}
    /\ kind \in {"ARRAY", "CHUNKED_ARRAY"}
    /\ action = (IF fn = "Unique" THEN "Unique" ELSE "DictEncode")
    /\ allow_expand = TRUE
    /\ FreshKernel
    /\ chunks = <<>> /\ kernel_outputs = <<>>
    /\ phase = "calls" /\ result = NoResult /\ cast_result = <<>>
    /\ NoDictEncoder

\* InvokeHash: func->Call for the array, or for the next chunk.
InvokeCall ==
    /\ phase = "calls"
    /\ Len(chunks) < (IF kind = "ARRAY" THEN 1 ELSE MaxChunks)
    /\ \E arr \in Arrays(type_id, MaxTotal - Len(log)) :
         \E o \in KernelCall([K EXCEPT !.napp = napp + 1], arr, kernel_outputs) :
            /\ SetK(o.k)
            /\ kernel_outputs' = o.out
            /\ chunks' = Append(chunks, arr)
            /\ phase' = CASE o.res = "ok" -> "calls"
                          [] o.res = "failed" -> "done"
                          [] o.res = "crash" -> "crashed"
                          [] o.res = "hang" -> "hung"
            /\ result' = IF o.res = "failed"
                         THEN [NoResult EXCEPT !.status = o.status] ELSE result
    /\ napp' = napp + 1
    /\ UNCHANGED <<dictVars, moreVars, type_id, action, allow_expand, lock_, cur, status, proc, flushed,
                   dictionaries, failed, fn, kind, cast_result>>

\* InvokeHash after the last Call, and the caller's return.
InvokeReturn ==
    /\ phase = "calls"
    /\ kind = "ARRAY" => Len(chunks) = 1
    /\ LET t == InvokeTail(fn, kind, K, kernel_outputs) IN
         /\ phase' = IF t.res = "ok" THEN "done" ELSE "crashed"
         /\ result' = t.result
    /\ UNCHANGED <<dictVars, moreVars, type_id, action, allow_expand, kernelVars, lock_, cur, status, proc,
                   flushed, dictionaries, napp, failed, fn, kind, chunks,
                   kernel_outputs, cast_result>>

NextInvoke == InvokeCall \/ InvokeReturn

SpecInvoke == InitInvoke /\ [][NextInvoke]_vars

\* ------------------------------------------------------------------------
\* SpecCast: TestDictionaryCast.Basic, for every type of its type list

\* The type list of TYPED_TEST_CASE(TestDictionaryCast, TestTypes).
TestTypes == {"Null", "UInt8", "Int8", "UInt16", "Int16", "Int32", "UInt32",
              "UInt64", "Int64", "Float", "Double", "Date32", "Date64",
              "FixedSizeBinary", "Binary"}

\* GetDictionaryEncodeKernel: the switch has a case for NullType and the ten
\* numeric types; for every other type hasher stays null and
\* CHECK_IMPLEMENTED returns NotImplemented.
GetDictionaryEncodeKernel(type) ==
    IF type \in NullTypes \cup PrimitiveCTypes
    THEN [status |-> StatusOK, hasher |-> TRUE]
    ELSE [status |-> StatusNotImplemented, hasher |-> FALSE]

\* DictionaryEncode(Datum(array)) on the kernel k that
\* GetDictionaryEncodeKernel has made: every outcome [k, res, result].
DictionaryEncodeArray(k, arr) ==
    { IF o.res = "ok"
      THEN LET t == InvokeTail("DictionaryEncode", "ARRAY", o.k, o.out)
           IN  [k |-> o.k, res |-> t.res, result |-> t.result]
      ELSE IF o.res = "failed"
      THEN [k |-> o.k, res |-> "ok", result |-> [NoResult EXCEPT !.status = o.status]]
      ELSE [k |-> o.k, res |-> o.res, result |-> NoResult]
      : o \in KernelCall(k, arr, <<>>) }

\* The plain array a dictionary array stands for: element i is the
\* dictionary entry its index points to, null where the index is null.
UnpackDictionary(da) ==
    [i \in 1 .. Len(da.indices) |->
        IF da.indices[i] = Null THEN Null
        ELSE IF da.indices[i] >= Len(da.dictionary) THEN OutOfBounds
        ELSE da.dictionary[da.indices[i] + 1]]

InitCast ==
    /\ type_id \in TestTypes
    /\ fn = "DictionaryEncode" /\ kind = "ARRAY"
    /\ action = "DictEncode" /\ allow_expand = TRUE
    /\ FreshKernel
    /\ chunks = <<>> /\ kernel_outputs = <<>>
    /\ phase = "test" /\ result = NoResult /\ cast_result = <<>>
    /\ NoDictEncoder

\* plain_array = MakeRandomArray<ArrayType>(...)
TestMakeRandomArray ==
    /\ phase = "test" /\ chunks = <<>>
    /\ \E arr \in Arrays(type_id, MaxTotal) : chunks' = <<arr>>
    /\ UNCHANGED <<dictVars, moreVars, type_id, action, allow_expand, kernelVars, lock_, cur, status,
                   proc, flushed, dictionaries, napp, failed, fn, kind,
                   kernel_outputs, phase, result, cast_result>>

\* DictionaryEncode(&ctx_, Datum(plain_array->data()), &out)
TestDictionaryEncode ==
    /\ phase = "test" /\ chunks # <<>>
    /\ LET g == GetDictionaryEncodeKernel(type_id) IN
         IF ~g.hasher
         THEN /\ phase' = "done"
              /\ result' = [NoResult EXCEPT !.status = g.status]
              /\ UNCHANGED <<kernelVars, napp>>
         ELSE /\ \E o \in DictionaryEncodeArray([K EXCEPT !.napp = 1], chunks[1]) :
                    /\ SetK(o.k)
                    /\ phase' = CASE o.res = "ok" -> "done"
                                  [] o.res = "crash" -> "crashed"
                                  [] o.res = "hang" -> "hung"
                    /\ result' = o.result
              /\ napp' = 1
    /\ UNCHANGED <<dictVars, moreVars, type_id, action, allow_expand, lock_, cur, status, proc,
                   flushed, dictionaries, failed, fn, kind, chunks,
                   kernel_outputs, cast_result>>

\* CheckPass(*MakeArray(out.array()), *plain_array, plain_array->type(), options):
\* the Cast of the dictionary array to the plain type.
TestCheckPass ==
    /\ phase = "done" /\ result.status = StatusOK
    /\ cast_result' = UnpackDictionary(result.chunks[1])
    /\ phase' = "checked"
    /\ UNCHANGED <<dictVars, moreVars, type_id, action, allow_expand, kernelVars, lock_, cur, status,
                   proc, flushed, dictionaries, napp, failed, fn, kind, chunks,
                   kernel_outputs, result>>

NextCast == TestMakeRandomArray \/ TestDictionaryEncode \/ TestCheckPass

SpecCast == InitCast /\ [][NextCast]_vars

\* ------------------------------------------------------------------------
\* Operators the properties are stated with

Range(s) == {s[i] : i \in 1 .. Len(s)}

RECURSIVE Flatten(_)
Flatten(ss) == IF ss = <<>> THEN <<>> ELSE Head(ss) \o Flatten(Tail(ss))

\* The distinct non-null elements of s, in order of first occurrence.
RECURSIVE FirstOccurrences(_)
FirstOccurrences(s) ==
    IF s = <<>> THEN <<>>
    ELSE LET d == FirstOccurrences(SubSeq(s, 1, Len(s) - 1))
             e == s[Len(s)]
         IN  IF e = Null \/ e \in Range(d) THEN d ELSE Append(d, e)

\* The 0-based position of v in the duplicate-free sequence d.
PositionIn(d, v) == (CHOOSE i \in 1 .. Len(d) : d[i] = v) - 1

NoDuplicates(s) == \A i, j \in 1 .. Len(s) : s[i] = s[j] => i = j

\* The input column of a run of Unique / DictionaryEncode.
InputColumn == Flatten(chunks)

\* The index stream of a DictionaryEncode result.
ResultIndices == Flatten([j \in 1 .. Len(result.chunks) |-> result.chunks[j].indices])

Returned(f) == phase = "done" /\ fn = f /\ result.status = StatusOK

\* The indices the inner loop handed to the Observe hooks in Append call a.
RECURSIVE IndicesOfAppend(_, _)
IndicesOfAppend(l, a) ==
    IF l = <<>> THEN <<>>
    ELSE IF Head(l).app = a
    THEN <<Head(l).idx>> \o IndicesOfAppend(Tail(l), a)
    ELSE IndicesOfAppend(Tail(l), a)

\* ------------------------------------------------------------------------
\* C1: whenever Unique(X) returns OK, for a single array or a chunked array,
\* its result is the sequence of the distinct non-null values of X, each
\* once, in order of first occurrence.
C1_UniqueIsFirstOccurrences ==
    Returned("Unique") => result.dictionary = FirstOccurrences(InputColumn)

\* C2: whenever DictionaryEncode(X) returns OK, its index stream has the
\* length of X, is null exactly where X is null, and elsewhere holds the
\* position of X[i] among the distinct values of X in first-occurrence order.
C2_IndicesArePositions ==
    Returned("DictionaryEncode") =>
        /\ Len(ResultIndices) = Len(InputColumn)
        /\ \A i \in 1 .. Len(InputColumn) :
              IF InputColumn[i] = Null
              THEN ResultIndices[i] = Null
              ELSE ResultIndices[i] =
                       PositionIn(FirstOccurrences(InputColumn), InputColumn[i])

\* C7: whenever DictionaryEncode returns OK, a chunked array of n chunks has
\* given n index chunks, chunk j with the length of input chunk j and the
\* indices the kernel produced for it, all with the one dictionary; a single
\* array has given a single array.
C7_OneIndexChunkPerInputChunk ==
    Returned("DictionaryEncode") =>
        /\ Len(result.chunks) = Len(chunks)
        /\ kind = "ARRAY" => Len(result.chunks) = 1
        /\ \A j \in 1 .. Len(result.chunks) :
              /\ Len(result.chunks[j].indices) = Len(chunks[j])
              /\ result.chunks[j].indices = IndicesOfAppend(log, j)
              /\ result.chunks[j].dictionary = result.dictionary

\* A chunked array of three chunks of different lengths, one with a null,
\* has been encoded.
C7_Witness ==
    /\ Returned("DictionaryEncode") /\ kind = "CHUNKED_ARRAY"
    /\ Len(chunks) = 3
    /\ Len(chunks[1]) = 1 /\ Len(chunks[2]) = 2 /\ Len(chunks[3]) = 0
    /\ Null \in Range(chunks[2])
    /\ Len(result.dictionary) = 2

\* ------------------------------------------------------------------------
\* Properties of one kernel instance (Spec)

\* The elements the inner loop has observed so far, in order.
Observed == [p \in 1 .. Len(log) |-> log[p].e]

\* What a lookup of value finds: the probe of the inner loop from
\* hash(value) & mod_bitmask_, wrapping at hash_table_size_; Null when it
\* ends at an empty slot or never ends.
Lookup(value) ==
    LET j == ProbeLoop(K, value, BitAnd(HashValue(value), mod_bitmask_), 0) IN
    IF j = NoSlot THEN Null
    ELSE IF hash_slots_[j] = kHashSlotEmpty THEN Null ELSE hash_slots_[j]

IsPrefix(s, t) == Len(s) <= Len(t) /\ s = SubSeq(t, 1, Len(s))

\* The position in the history at which value v was first observed.
FirstSeen(v) == CHOOSE p \in 1 .. Len(log) :
                    log[p].e = v /\ \A q \in 1 .. (p - 1) : log[q].e # v

\* The indices of the history that belong to Append calls that did not fail.
RECURSIVE IndicesNotOf(_, _)
IndicesNotOf(l, apps) ==
    IF l = <<>> THEN <<>>
    ELSE IF Head(l).app \in apps
    THEN IndicesNotOf(Tail(l), apps)
    ELSE <<Head(l).idx>> \o IndicesNotOf(Tail(l), apps)

CommittedIndices == IndicesNotOf(log, {f.app : f \in failed})

\* C3: once the table has been doubled, a lookup of every memoized value
\* (from hash & (capacity - 1), probing forward and wrapping at the new
\* capacity) finds the value's own dense index, the dictionary holds no value
\* twice, and the rehash has written nothing outside the new slot array.
C3_RehashKeepsEveryValue ==
    (initialized_ /\ hash_table_size_ > kInitialHashTableSize) =>
        /\ \A i \in 1 .. Len(dict_values) : Lookup(dict_values[i]) = i - 1
        /\ NoDuplicates(dict_values)
        /\ "rehash" \notin oob_writes

\* C4: a value that is observed again gets the index it got when it was
\* first observed, and the memo has as many entries as distinct values
\* have been observed.
C4_ReinsertReturnsFirstIndex ==
    /\ \A p, q \in 1 .. Len(log) :
          (p < q /\ log[p].e # Null /\ log[p].e = log[q].e) => log[q].idx = log[p].idx
    /\ Len(dict_values) = Cardinality(Range(Observed) \ {Null})

\* C5: with k distinct values observed, the occupied hash slots hold exactly
\* the indices 0 .. k-1, each in one slot, and dictionary entry i is the i-th
\* distinct value in order of first observation.
C5_SlotsHoldDenseIndices ==
    initialized_ =>
        LET d == FirstOccurrences(Observed)
            occupied == {j \in DOMAIN hash_slots_ : hash_slots_[j] # kHashSlotEmpty}
        IN  /\ {hash_slots_[j] : j \in occupied} = 0 .. (Len(d) - 1)
            /\ Cardinality(occupied) = Len(d)
            /\ dict_values = d

\* C6: while an Append holds the kernel (lock_ is held before and after the
\* step), no Flush and no GetDictionary takes effect.
C6_NoFlushDuringAppend ==
    [][(lock_ /\ lock_') =>
          /\ flushed' = flushed
          /\ dictionaries' = dictionaries
          /\ (indices_builder_' = indices_builder_ \/ Len(log') > Len(log))]_vars

\* C8: every index handed out for a value denotes that value in the
\* dictionary from then on, and a value first seen earlier than another has
\* a smaller index than it.
C8_IndicesKeepTheirValues ==
    /\ \A p \in 1 .. Len(log) :
          log[p].e # Null =>
              /\ log[p].idx < Len(dict_values)
              /\ dict_values[log[p].idx + 1] = log[p].e
    /\ \A p, q \in 1 .. Len(log) :
          (log[p].e # Null /\ log[q].e # Null
             /\ FirstSeen(log[p].e) < FirstSeen(log[q].e)) => log[p].idx < log[q].idx

\* C9: with allow_expand = false, an Append stays OK only over null
\* elements; the Append that met a value returns Invalid with the message
\* about a new dictionary value, no exception leaves Append, nothing is
\* inserted, and lock_ is free again.
C9_NewValueGivesInvalid ==
    ~allow_expand =>
        /\ proc # "exception"
        /\ dict_values = <<>>
        /\ (cur.active /\ cur.res = "ok") =>
              /\ Len(IndicesOfAppend(log, napp)) = cur.i - 1
              /\ \A p \in 1 .. Len(log) : log[p].e = Null
        /\ (~cur.active /\ [app |-> napp, res |-> "throw"] \in failed) =>
              /\ status = StatusInvalid
              /\ ~lock_

\* An Append of a non-expanding kernel has observed a null and then met a
\* value, and has returned.
C9_Witness ==
    /\ ~allow_expand /\ ~cur.active
    /\ [app |-> napp, res |-> "throw"] \in failed
    /\ Len(IndicesOfAppend(log, napp)) >= 1
    /\ status = StatusInvalid /\ ~lock_

\* C10: what a dictionary-encode kernel has flushed holds no index and no
\* validity bit written by an Append call that failed.
C10_FailedAppendLeavesNoOutput ==
    (action = "DictEncode" /\ allow_expand /\ ~cur.active) =>
        IsPrefix(Flatten(flushed), CommittedIndices)

\* ------------------------------------------------------------------------
\* Properties of TestDictionaryCast.Basic (SpecCast)

\* C11: for an array of every type of the test's type list, DictionaryEncode
\* returns OK (no allocation having failed), and the cast of the dictionary
\* array back to the plain type equals the input.
C11_EncodeThenCastIsIdentity ==
    /\ (phase = "done" /\ alloc_failures = 0) => result.status = StatusOK
    /\ phase = "checked" => cast_result = chunks[1]

\* ------------------------------------------------------------------------
\* Properties of the dictionary of one kernel instance (Spec)

\* Every index the kernel has emitted: flushed, or still in the builder.
EmittedIndices == Flatten(flushed) \o indices_builder_

\* C12: the dictionary of an expanding kernel has no null entry and as many
\* entries as distinct non-null values have been observed; the dictionary of
\* a kernel for a Null-typed column is empty.
C12_NullNeverEntersTheMemo ==
    /\ Null \notin Range(dict_values)
    /\ allow_expand => Len(dict_values) = Cardinality(Range(Observed) \ {Null})
    /\ type_id \in NullTypes =>
          /\ dict_values = <<>>
          /\ GetDictionaryResult(K) = [res |-> "ok", length |-> 0]
          /\ \A i \in 1 .. Len(dictionaries) : dictionaries[i].length = 0

\* C13: when no Append is in progress, every non-null index a
\* dictionary-encode kernel has emitted is at least 0 and smaller than the
\* length of the dictionary GetDictionary returns.
C13_IndicesAreInTheDictionary ==
    (action = "DictEncode" /\ ~cur.active /\ GetDictionaryResult(K).res = "ok") =>
        \A i \in 1 .. Len(EmittedIndices) :
            EmittedIndices[i] # Null =>
                /\ 0 <= EmittedIndices[i]
                /\ EmittedIndices[i] < GetDictionaryResult(K).length

\* A dictionary-encode kernel whose table has doubled has flushed the index
\* of its last dictionary entry and has returned its dictionary.
C13_Witness ==
    /\ action = "DictEncode" /\ ~cur.active
    /\ hash_table_size_ > kInitialHashTableSize
    /\ Len(flushed) = 1 /\ Len(dict_values) - 1 \in Range(flushed[1])
    /\ Len(dictionaries) = 1 /\ dictionaries[1].length = Len(dict_values)

\* ------------------------------------------------------------------------
\* parquet: DictEncoder

\* Bounds of SpecDict: the largest primitive value, the Put calls, the
\* FlushValues calls, the WriteIndices calls and the largest buffer they are
\* given, the set_type_length calls and the largest type length, the Decode
\* calls.
MaxDictValue == 2

MaxPutCalls == 2

MaxFlushValues == 1

MaxWriteIndices == 1

MaxBufferLen == 1

MaxSetTypeLength == 1

MaxTypeLength == 2

MaxDecodeCalls == 2

DTypes == {"INT32", "INT64", "BYTE_ARRAY", "FIXED_LEN_BYTE_ARRAY"}

PrimitiveDTypes == {"INT32", "INT64"}

\* sizeof(T)
SizeOf(t) == IF t = "INT32" THEN 4 ELSE 8

\* The bytes the values of the byte array types are made of.
ByteAlphabet == {1, 2}

\* The values given to Put: numbers, byte arrays of several lengths, and
\* fixed length byte arrays of tl bytes.
DictValues(t, tl) ==
    CASE t \in PrimitiveDTypes -> 0 .. MaxDictValue
      [] t = "BYTE_ARRAY" -> {<<>>, <<1>>, <<2, 1>>}
      [] t = "FIXED_LEN_BYTE_ARRAY" -> [1 .. tl -> ByteAlphabet]

\* The n bytes of v, least significant first.
RECURSIVE LittleEndian(_, _)
LittleEndian(v, n) ==
    IF n = 0 THEN <<>> ELSE <<v % 256>> \o LittleEndian(v \div 256, n - 1)

RECURSIVE FromLittleEndian(_)
FromLittleEndian(bs) ==
    IF bs = <<>> THEN 0 ELSE Head(bs) + 256 * FromLittleEndian(Tail(bs))

\* memo_table_.GetOrInsert(v, on_found, on_not_found): the index of v when it
\* is memoized (found), else v is added with the next index.
GetOrInsert(memo, v) ==
    IF \E i \in 1 .. Len(memo) : memo[i] = v
    THEN [memo |-> memo, found |-> TRUE,
          memo_index |-> (CHOOSE i \in 1 .. Len(memo) : memo[i] = v) - 1]
    ELSE [memo |-> Append(memo, v), found |-> FALSE, memo_index |-> Len(memo)]

\* The encoder's members as one record.
E == [dtype |-> dtype, type_length_ |-> type_length_, memo_table_ |-> memo_table_,
      buffered_indices_ |-> buffered_indices_,
      dict_encoded_size_ |-> dict_encoded_size_]

SetE(e) ==
    /\ type_length_' = e.type_length_
    /\ memo_table_' = e.memo_table_
    /\ buffered_indices_' = e.buffered_indices_
    /\ dict_encoded_size_' = e.dict_encoded_size_

\* DictEncoder::Put(v) for primitive types, ByteArray and FLBA: on_not_found
\* adds the encoded size of the new entry; the index is buffered.
Put(e, v) ==
    LET g == GetOrInsert(e.memo_table_, v)
        size == CASE e.dtype \in PrimitiveDTypes -> SizeOf(e.dtype)
                  [] e.dtype = "BYTE_ARRAY" -> Len(v) + 4
                  [] e.dtype = "FIXED_LEN_BYTE_ARRAY" -> e.type_length_
    IN  [e EXCEPT !.memo_table_ = g.memo,
                  !.dict_encoded_size_ = IF g.found THEN @ ELSE @ + size,
                  !.buffered_indices_ = Append(@, g.memo_index)]

\* DictEncoder::Put(src, num_values): Put for each element in order.
RECURSIVE PutMany(_, _)
PutMany(e, src) ==
    IF src = <<>> THEN e ELSE PutMany(Put(e, Head(src)), Tail(src))

\* DictEncoder::num_entries
num_entries(e) == Len(e.memo_table_)

\* BitUtil::Log2(x): the least k with 2^k >= x.
Log2(x) == CHOOSE k \in 0 .. 32 : 2 ^ k >= x /\ (k = 0 \/ 2 ^ (k - 1) < x)

\* bit_width without the case of one entry.
bit_widthWithoutOneEntry(e) ==
    IF num_entries(e) = 0 THEN 0 ELSE Log2(num_entries(e))

\* DictEncoder::bit_width
bit_width(e) ==
    IF num_entries(e) = 0 THEN 0
    ELSE IF num_entries(e) = 1 THEN 1
    ELSE Log2(num_entries(e))

\* ------------------------------------------------------------------------
\* The RLE / bit-packed run codec

CeilDiv(a, b) == (a + b - 1) \div b

BytesForBits(bits) == CeilDiv(bits, 8)

\* A bit-packed group has 8 values; a literal run has at most 64 groups; a
\* varint header has at most 5 bytes.
ValuesPerGroup == 8

MAX_VALUES_PER_LITERAL_RUN == 64 * ValuesPerGroup

MAX_VLQ_BYTE_LEN == 5

Max(a, b) == IF a >= b THEN a ELSE b

Min(a, b) == IF a <= b THEN a ELSE b

\* RleEncoder::MaxBufferSize(bit_width, num_values)
MaxBufferSize(w, n) ==
    LET num_runs == CeilDiv(n, ValuesPerGroup)
        literal_max_size == num_runs + num_runs * w
        min_repeated_run_size == 1 + BytesForBits(w)
        repeated_max_size == num_runs * min_repeated_run_size
    IN  Max(literal_max_size, repeated_max_size)

\* RleEncoder::MinBufferSize(bit_width)
MinBufferSize(w) ==
    LET max_literal_run_size == 1 + BytesForBits(MAX_VALUES_PER_LITERAL_RUN * w)
        max_repeated_run_size == MAX_VLQ_BYTE_LEN + BytesForBits(w)
    IN  Max(max_literal_run_size, max_repeated_run_size)

\* The number of elements at the head of xs equal to its first.
RECURSIVE RunLength(_)
RunLength(xs) ==
    IF Len(xs) <= 1 THEN Len(xs)
    ELSE IF xs[2] = xs[1] THEN 1 + RunLength(Tail(xs)) ELSE 1

\* ValuesPerGroup values of w bits each, the first in the lowest bits.
RECURSIVE BitPack(_, _)
BitPack(w, g) ==
    IF g = <<>> THEN 0 ELSE Head(g) + (2 ^ w) * BitPack(w, Tail(g))

\* The run stream of xs at bit width w, chosen greedily: a run of at least
\* ValuesPerGroup equal values is an RLE run (header count * 2, then the
\* value in whole bytes); otherwise the next ValuesPerGroup values, filled up
\* with zeros at the end, are a bit-packed group (header 1 * 2 + 1).
RECURSIVE RleEncode(_, _)
RleEncode(w, xs) ==
    IF xs = <<>> THEN <<>>
    ELSE LET r == RunLength(xs) IN
         IF r >= ValuesPerGroup
         THEN <<2 * r>> \o LittleEndian(xs[1], BytesForBits(w))
                  \o RleEncode(w, SubSeq(xs, r + 1, Len(xs)))
         ELSE LET g == [i \in 1 .. ValuesPerGroup |->
                           IF i <= Len(xs) THEN xs[i] ELSE 0]
              IN  <<3>> \o LittleEndian(BitPack(w, g), w)
                      \o (IF Len(xs) <= ValuesPerGroup THEN <<>>
                          ELSE RleEncode(w, SubSeq(xs, ValuesPerGroup + 1, Len(xs))))

\* The first n values of the run stream bs at bit width w, fewer when the
\* stream ends before.
RECURSIVE RleDecode(_, _, _)
RleDecode(w, bs, n) ==
    IF w = 0 THEN [i \in 1 .. n |-> 0]
    ELSE IF n = 0 \/ bs = <<>> THEN <<>>
    ELSE LET h == bs[1]
             repeated == h % 2 = 0
             count == IF repeated THEN h \div 2 ELSE ValuesPerGroup * (h \div 2)
             nbytes == IF repeated THEN BytesForBits(w) ELSE w * (h \div 2)
             m == Min(count, n)
         IN  IF Len(bs) < 1 + nbytes \/ count = 0 THEN <<>>
             ELSE LET x == FromLittleEndian(SubSeq(bs, 2, 1 + nbytes))
                      run == [i \in 1 .. m |->
                                 IF repeated THEN x
                                 ELSE (x \div (2 ^ (w * (i - 1)))) % (2 ^ w)]
                  IN  run \o (IF Len(bs) = 1 + nbytes THEN <<>>
                              ELSE RleDecode(w, SubSeq(bs, 2 + nbytes, Len(bs)), n - m))

\* ------------------------------------------------------------------------
\* DictEncoder: the pages it writes

\* An estimate of one byte: the bit width and nothing else.
EstimatedDataEncodedSizeOfWidthByte(e) == 1 + MaxBufferSize(bit_width(e), 0)

\* DictEncoder::EstimatedDataEncodedSize
EstimatedDataEncodedSize(e) ==
    1 + MaxBufferSize(bit_width(e), Len(e.buffered_indices_))
      + MinBufferSize(bit_width(e))

\* The data heap of a binary memo table: its values one after the other.
\* HeapBytes is the n bytes starting at the value of index i (from 0); a
\* byte after the end of the heap has no defined value.
HeapBytes(memo, i, n) ==
    LET heap == Flatten(memo)
        offset == Len(Flatten(SubSeq(memo, 1, i)))
    IN  [k \in 1 .. n |-> IF offset + k <= Len(heap) THEN heap[offset + k]
                           ELSE OutOfBounds]

\* DictEncoder::WriteDict for primitive types (CopyValues), ByteArray (a
\* 4 byte length, then the bytes) and FLBA (type_length_ bytes from the
\* start of each value).
WriteDict(e) ==
    LET memo == e.memo_table_ IN
    CASE e.dtype \in PrimitiveDTypes ->
             Flatten([i \in 1 .. Len(memo) |-> LittleEndian(memo[i], SizeOf(e.dtype))])
      [] e.dtype = "BYTE_ARRAY" ->
             Flatten([i \in 1 .. Len(memo) |-> LittleEndian(Len(memo[i]), 4) \o memo[i]])
      [] e.dtype = "FIXED_LEN_BYTE_ARRAY" ->
             Flatten([i \in 1 .. Len(memo) |-> HeapBytes(memo, i - 1, e.type_length_)])

\* WriteIndices without ClearIndices().
WriteIndicesKeepsIndices(e, buffer_len) ==
    LET w == bit_width(e)
        bytes == RleEncode(w, e.buffered_indices_)
        full == e.buffered_indices_ # <<>> /\ Len(bytes) > buffer_len - 1
    IN  IF full
        THEN [e |-> e, result |-> 0 - 1, buffer |-> <<w>>, oob |-> buffer_len < 1]
        ELSE [e |-> e,
              result |-> 1 + Len(bytes), buffer |-> <<w>> \o bytes,
              oob |-> buffer_len < 1]

\* DictEncoder::WriteIndices(buffer, buffer_len).  The bit width is stored
\* to *buffer before anything is compared with buffer_len: with a buffer of
\* no bytes this store is outside the buffer (oob).  The run encoder gets
\* the other buffer_len - 1 bytes; a Put that finds them full returns
\* false and WriteIndices returns -1 with the indices still buffered.
\* Otherwise the indices are cleared and 1 + encoder.len() is returned.
WriteIndices(e, buffer_len) ==
    LET w == bit_width(e)
        bytes == RleEncode(w, e.buffered_indices_)
        full == e.buffered_indices_ # <<>> /\ Len(bytes) > buffer_len - 1
    IN  IF full
        THEN [e |-> e, result |-> 0 - 1, buffer |-> <<w>>, oob |-> buffer_len < 1]
        ELSE [e |-> [e EXCEPT !.buffered_indices_ = <<>>],
              result |-> 1 + Len(bytes), buffer |-> <<w>> \o bytes,
              oob |-> buffer_len < 1]

\* FlushValues that also empties the memo table.
FlushValuesClearsDictionary(e) ==
    LET r == WriteIndices(e, EstimatedDataEncodedSize(e)) IN
    [e |-> [r.e EXCEPT !.memo_table_ = <<>>], result |-> r.result, oob |-> r.oob,
     buffer |-> IF r.result >= 0 THEN r.buffer ELSE <<>>,
     res |-> IF r.result >= 0 THEN "ok" ELSE "throw"]

\* DictEncoder::FlushValues: WriteIndices into a buffer of
\* EstimatedDataEncodedSize() bytes, then Resize(result_size); a negative
\* size makes Resize fail and FlushValues throw.
FlushValues(e) ==
    LET r == WriteIndices(e, EstimatedDataEncodedSize(e)) IN
    [e |-> r.e, result |-> r.result, oob |-> r.oob,
     buffer |-> IF r.result >= 0 THEN r.buffer ELSE <<>>,
     res |-> IF r.result >= 0 THEN "ok" ELSE "throw"]

\* What a call of WriteIndices or FlushValues saw and did.
WriteRecord(op, e, buffer_len, r) ==
    [op |-> op, buffer_len |-> buffer_len, result |-> r.result,
     buffer |-> r.buffer, oob |-> r.oob,
     estimated |-> EstimatedDataEncodedSize(e),
     indices |-> e.buffered_indices_, values |-> put_values,
     memo |-> e.memo_table_, size |-> e.dict_encoded_size_,
     width |-> bit_width(e),
     after |-> [indices |-> r.e.buffered_indices_, memo |-> r.e.memo_table_,
                size |-> r.e.dict_encoded_size_]]

\* An index page: the bytes written, the number of values in it and the
\* values that were put to give them.
IndexPage(op, e, r) ==
    [op |-> op, data |-> r.buffer, num_values |-> Len(put_values),
     values |-> put_values, entries |-> num_entries(e)]

\* ------------------------------------------------------------------------
\* DictionaryDecoder

\* The plain decoder the dictionary page is read with: n values of type t
\* from bs; ok is false when bs ends before the n values do.
RECURSIVE PlainDecodeByteArrays(_, _)
PlainDecodeByteArrays(bs, n) ==
    IF n = 0 THEN [ok |-> TRUE, values |-> <<>>]
    ELSE IF Len(bs) < 4 \/ Len(bs) < 4 + FromLittleEndian(SubSeq(bs, 1, 4))
    THEN [ok |-> FALSE, values |-> <<>>]
    ELSE LET len == FromLittleEndian(SubSeq(bs, 1, 4))
             rest == PlainDecodeByteArrays(SubSeq(bs, 5 + len, Len(bs)), n - 1)
         IN  [ok |-> rest.ok, values |-> <<SubSeq(bs, 5, 4 + len)>> \o rest.values]

PlainDecodeFixed(bs, n, size) ==
    IF Len(bs) < n * size THEN [ok |-> FALSE, values |-> <<>>]
    ELSE [ok |-> TRUE,
          values |-> [i \in 1 .. n |-> SubSeq(bs, (i - 1) * size + 1, i * size)]]

PlainDecode(t, tl, bs, n) ==
    CASE t \in PrimitiveDTypes ->
             LET d == PlainDecodeFixed(bs, n, SizeOf(t)) IN
             [ok |-> d.ok,
              values |-> [i \in 1 .. Len(d.values) |-> FromLittleEndian(d.values[i])]]
      [] t = "BYTE_ARRAY" -> PlainDecodeByteArrays(bs, n)
      [] t = "FIXED_LEN_BYTE_ARRAY" -> PlainDecodeFixed(bs, n, tl)

\* DictionaryDecoder::SetDict(dictionary): dictionary is a plain decoder over
\* the dictionary page bs with n values left; its Decode fills dictionary_,
\* and throws when the page is too short.  For FLBA the values have
\* descr_->type_length() bytes.
SetDict(d, t, tl, bs, n) ==
    LET plain == PlainDecode(t, tl, bs, n) IN
    IF plain.ok THEN [d EXCEPT !.stage = "dict", !.dictionary_ = plain.values]
    ELSE [d EXCEPT !.stage = "error", !.eof = TRUE]

\* SetData without the step over the bit width byte.
SetDataKeepsWidthByte(d, num_values, data) ==
    IF Len(data) = 0
    THEN [d EXCEPT !.stage = "data", !.num_values_ = num_values, !.out = <<>>]
    ELSE [d EXCEPT !.stage = "data", !.num_values_ = num_values,
                   !.bit_width = Head(data), !.data = data, !.pos = 0,
                   !.out = <<>>]

\* DictionaryDecoder::SetData(num_values, data, len)
SetData(d, num_values, data) ==
    IF Len(data) = 0
    THEN [d EXCEPT !.stage = "data", !.num_values_ = num_values, !.out = <<>>]
    ELSE [d EXCEPT !.stage = "data", !.num_values_ = num_values,
                   !.bit_width = Head(data), !.data = Tail(data), !.pos = 0,
                   !.out = <<>>]

\* Decode that takes max_values off num_values_ before it reads.
DecodeCountsFirst(d, max_values) ==
    LET m == Min(max_values, d.num_values_)
        all == RleDecode(d.bit_width, d.data, d.pos + m)
        idx == SubSeq(all, d.pos + 1, Len(all))
    IN  IF \E i \in 1 .. Len(idx) : idx[i] >= Len(d.dictionary_)
        THEN [d EXCEPT !.stage = "undefined"]
        ELSE IF Len(idx) # m
        THEN [d EXCEPT !.stage = "error", !.eof = TRUE, !.num_values_ = @ - m]
        ELSE [d EXCEPT !.num_values_ = @ - m, !.pos = @ + m, !.ret = m,
                       !.out = @ \o [i \in 1 .. m |-> d.dictionary_[idx[i] + 1]]]

\* DictionaryDecoder::Decode(buffer, max_values): GetBatchWithDict reads up
\* to max_values indices and copies dictionary_[index] for each; an index
\* that is not in dictionary_ reads outside it; fewer indices than asked
\* for is EofException.
Decode(d, max_values) ==
    LET m == Min(max_values, d.num_values_)
        all == RleDecode(d.bit_width, d.data, d.pos + m)
        idx == SubSeq(all, d.pos + 1, Len(all))
    IN  IF \E i \in 1 .. Len(idx) : idx[i] >= Len(d.dictionary_)
        THEN [d EXCEPT !.stage = "undefined"]
        ELSE IF Len(idx) # m
        THEN [d EXCEPT !.stage = "error", !.eof = TRUE]
        ELSE [d EXCEPT !.num_values_ = @ - m, !.pos = @ + m, !.ret = m,
                       !.out = @ \o [i \in 1 .. m |-> d.dictionary_[idx[i] + 1]]]

\* ------------------------------------------------------------------------
\* SpecDict: one DictEncoder, the pages it writes, and one DictionaryDecoder
\* of the same column reading them

\* The largest max_values given to Decode.
MaxBatch == 32

\* The arrays given to Put(src, num_values): the same value ValuesPerGroup
\* times, and two different values.
PutArrays(t, tl) ==
    {[i \in 1 .. ValuesPerGroup |-> v] : v \in DictValues(t, tl)}
        \cup {s \in {<<a, b>> : a, b \in DictValues(t, tl)} : s[1] # s[2]}

\* The specification has no hash kernel.
NoHashKernel ==
    /\ type_id = "none" /\ action = "none" /\ allow_expand = FALSE
    /\ FreshKernel
    /\ fn = "none" /\ kind = "none" /\ chunks = <<>> /\ kernel_outputs = <<>>
    /\ phase = "none" /\ result = NoResult /\ cast_result = <<>>

\* DictEncoder(desc): type_length_(desc->type_length()), an empty memo table,
\* no indices, dict_encoded_size_(0).  The decoder is made for the same
\* column descriptor.
InitDict ==
    /\ NoHashKernel
    /\ NoMore
    /\ dtype \in DTypes
    /\ descr_type_length \in (IF dtype = "FIXED_LEN_BYTE_ARRAY"
                              THEN 1 .. MaxTypeLength ELSE {0 - 1})
    /\ type_length_ = descr_type_length
    /\ memo_table_ = <<>> /\ buffered_indices_ = <<>> /\ dict_encoded_size_ = 0
    /\ enc_proc = "running"
    /\ put_values = <<>> /\ pages = <<>> /\ last_write = NoWrite
    /\ calls = NoCalls /\ dec = NoDecoder

\* The encoder is used until the decoder starts reading its pages.
Encoding == enc_proc = "running" /\ dec.stage = "none"

\* encoder.Put(v)
DictPut ==
    /\ Encoding
    /\ calls.put < MaxPutCalls
    /\ \E v \in DictValues(dtype, type_length_) :
          /\ SetE(Put(E, v))
          /\ put_values' = Append(put_values, v)
    /\ calls' = [calls EXCEPT !.put = @ + 1]
    /\ UNCHANGED <<hashVars, moreVars, dtype, descr_type_length, enc_proc, pages, last_write, dec>>

\* encoder.Put(src, num_values)
DictPutMany ==
    /\ Encoding
    /\ calls.put < MaxPutCalls
    /\ \E src \in PutArrays(dtype, type_length_) :
          /\ SetE(PutMany(E, src))
          /\ put_values' = put_values \o src
    /\ calls' = [calls EXCEPT !.put = @ + 1]
    /\ UNCHANGED <<hashVars, moreVars, dtype, descr_type_length, enc_proc, pages, last_write, dec>>

\* encoder.FlushValues()
DictFlushValues ==
    /\ Encoding
    /\ calls.flush < MaxFlushValues
    /\ LET r == FlushValues(E) IN
          /\ SetE(r.e)
          /\ last_write' = WriteRecord("FlushValues", E, EstimatedDataEncodedSize(E), r)
          /\ pages' = IF r.res = "ok" THEN Append(pages, IndexPage("FlushValues", E, r)) ELSE pages
          /\ put_values' = IF r.res = "ok" THEN <<>> ELSE put_values
          /\ enc_proc' = IF r.oob THEN "undefined" ELSE "running"
    /\ calls' = [calls EXCEPT !.flush = @ + 1]
    /\ UNCHANGED <<hashVars, moreVars, dtype, descr_type_length, dec>>

\* encoder.WriteIndices(buffer, buffer_len) with a buffer of buffer_len bytes
DictWriteIndices ==
    /\ Encoding
    /\ calls.write < MaxWriteIndices
    /\ \E buffer_len \in (0 .. MaxBufferLen) \cup {EstimatedDataEncodedSize(E)} :
          LET r == WriteIndices(E, buffer_len) IN
          /\ SetE(r.e)
          /\ last_write' = WriteRecord("WriteIndices", E, buffer_len, r)
          /\ pages' = IF r.result >= 0 /\ ~r.oob THEN Append(pages, IndexPage("WriteIndices", E, r)) ELSE pages
          /\ put_values' = IF r.result >= 0 THEN <<>> ELSE put_values
          /\ enc_proc' = IF r.oob THEN "undefined" ELSE "running"
    /\ calls' = [calls EXCEPT !.write = @ + 1]
    /\ UNCHANGED <<hashVars, moreVars, dtype, descr_type_length, dec>>

\* encoder.set_type_length(type_length)
DictSetTypeLength ==
    /\ Encoding
    /\ dtype = "FIXED_LEN_BYTE_ARRAY"
    /\ calls.set_type_length < MaxSetTypeLength
    /\ \E type_length \in 1 .. MaxTypeLength :
          /\ type_length # type_length_
          /\ type_length_' = type_length
    /\ calls' = [calls EXCEPT !.set_type_length = @ + 1]
    /\ UNCHANGED <<hashVars, moreVars, dtype, descr_type_length, memo_table_, buffered_indices_,
                   dict_encoded_size_, enc_proc, put_values, pages, last_write, dec>>

dictEncoderVars == <<dtype, descr_type_length, type_length_, memo_table_,
                     buffered_indices_, dict_encoded_size_, enc_proc, put_values,
                     pages, last_write>>

\* decoder.SetDict(plain decoder over the dictionary page): the page is
\* WriteDict into a buffer of dict_encoded_size() bytes, with num_entries()
\* values.
DecoderSetDict ==
    /\ enc_proc = "running"
    /\ dec.stage = "none"
    /\ pages # <<>>
    /\ dec' = SetDict(dec, dtype, descr_type_length, WriteDict(E), num_entries(E))
    /\ UNCHANGED <<hashVars, moreVars, dictEncoderVars, calls>>

\* decoder.SetData(num_values, data, len) with one of the index pages
DecoderSetData ==
    /\ dec.stage = "dict"
    /\ \E p \in 1 .. Len(pages) :
          dec' = [SetData(dec, pages[p].num_values, pages[p].data) EXCEPT !.page = p]
    /\ UNCHANGED <<hashVars, moreVars, dictEncoderVars, calls>>

\* decoder.Decode(buffer, max_values)
DecoderDecode ==
    /\ dec.stage = "data"
    /\ calls.decode < MaxDecodeCalls
    /\ \E max_values \in {1, MaxBatch} : dec' = Decode(dec, max_values)
    /\ calls' = [calls EXCEPT !.decode = @ + 1]
    /\ UNCHANGED <<hashVars, moreVars, dictEncoderVars>>

NextDict ==
    \/ DictPut
    \/ DictPutMany
    \/ DictFlushValues
    \/ DictWriteIndices
    \/ DictSetTypeLength
    \/ DecoderSetDict
    \/ DecoderSetData
    \/ DecoderDecode

SpecDict == InitDict /\ [][NextDict]_vars

\* ------------------------------------------------------------------------
\* Properties of the dictionary encoder and decoder

\* The page the decoder was given.
DecoderPage == pages[dec.page]

\* The decoder has read every value of its page.
DecodedAll == dec.stage = "data" /\ dec.num_values_ = 0

\* The decoder has not thrown and has read nothing outside its dictionary,
\* and so far it gave the first values put for its page, in order.
DecodesItsPage ==
    /\ dec.stage \in {"dict", "data"}
    /\ dec.stage = "data" =>
          /\ dec.out = SubSeq(DecoderPage.values, 1, dec.pos)
          /\ DecodedAll => dec.out = DecoderPage.values

\* C14: when values are put into an encoder, WriteIndices or FlushValues
\* writes them all to one page, and a decoder of the same column is given
\* the bytes of WriteDict by SetDict and the page by SetData, then Decode
\* gives the values that were put, in order (no set_type_length call
\* between).
C14_DictionaryPageRoundTrip ==
    (/\ calls.set_type_length = 0
     /\ Len(pages) = 1 /\ put_values = <<>>
     /\ dec.stage # "none") => DecodesItsPage

C14_Witness ==
    /\ calls.set_type_length = 0
    /\ Len(pages) = 1 /\ put_values = <<>>
    /\ DecodedAll /\ calls.decode = 2
    /\ Len(dec.out) > ValuesPerGroup
    /\ Cardinality(Range(dec.out)) = 2
    /\ dec.out = pages[1].values

\* The pages written before later Puts decode against the later dictionary.
EarlierPagesDecode ==
    (calls.set_type_length = 0 /\ dec.stage # "none") => DecodesItsPage

\* C15: no step of the encoder removes, reorders or re-indexes a dictionary
\* entry (the memo table before the step is a prefix of the memo table
\* after it), and a page flushed at any time decodes to the values put for
\* it against the dictionary written at any later time.
C15_FlushKeepsTheDictionary ==
    /\ [][IsPrefix(memo_table_, memo_table_')]_vars
    /\ []EarlierPagesDecode

C15_Witness ==
    /\ calls.set_type_length = 0
    /\ DecodedAll
    /\ DecoderPage.op = "FlushValues"
    /\ DecoderPage.entries = 2 /\ num_entries(E) > 2
    /\ Cardinality(Range(dec.out)) = 2
    /\ dec.out = DecoderPage.values

\* C16: FlushValues returns the index page (the bit width, then the run
\* stream of the buffered indices) and leaves no buffered index; the memo
\* entries, num_entries and dict_encoded_size are as before the call.
C16_FlushValuesClearsOnlyTheIndices ==
    last_write.op = "FlushValues" =>
        /\ last_write.result = Len(last_write.buffer)
        /\ last_write.buffer =
               <<last_write.width>> \o RleEncode(last_write.width, last_write.indices)
        /\ last_write.after.indices = <<>>
        /\ last_write.after.memo = last_write.memo
        /\ Len(last_write.after.memo) = Len(last_write.memo)
        /\ last_write.after.size = last_write.size

C16_Witness ==
    /\ last_write.op = "FlushValues"
    /\ Len(last_write.indices) > ValuesPerGroup
    /\ put_values = <<>> /\ buffered_indices_ = <<>>
    /\ Len(memo_table_) = 2
    /\ dec.stage = "none"

C18_WriteIndicesFillsOrRefuses ==
    last_write.op = "WriteIndices" =>
        LET bytes == RleEncode(last_write.width, last_write.indices)
            fits == 1 + Len(bytes) <= last_write.buffer_len
        IN  /\ ~last_write.oob
            /\ fits => /\ last_write.result = 1 + Len(bytes)
                       /\ last_write.buffer = <<last_write.width>> \o bytes
                       /\ last_write.after.indices = <<>>
            /\ ~fits => /\ last_write.result = 0 - 1
                        /\ last_write.after.indices = last_write.indices

\* C19: bit_width() is 0 with no dictionary entry, 1 with one entry and
\* otherwise the least w with 2^w >= num_entries; every buffered index is
\* less than 2^bit_width().
C19_BitWidthHoldsEveryIndex ==
    LET n == num_entries(E)
        w == bit_width(E)
    IN  /\ n = 0 => w = 0
        /\ n = 1 => w = 1
        /\ n > 1 => (2 ^ w >= n /\ 2 ^ (w - 1) < n)
        /\ \A i \in 1 .. Len(buffered_indices_) :
              0 <= buffered_indices_[i] /\ buffered_indices_[i] < 2 ^ w

C19_Witness ==
    /\ num_entries(E) = 3 /\ bit_width(E) = 2
    /\ Len(buffered_indices_) > 2
    /\ 2 \in Range(buffered_indices_)
    /\ dec.stage = "none"

RECURSIVE SumOfByteArraySizes(_)
SumOfByteArraySizes(memo) ==
    IF memo = <<>> THEN 0 ELSE 4 + Len(Head(memo)) + SumOfByteArraySizes(Tail(memo))

\* C20: dict_encoded_size is the number of bytes WriteDict writes:
\* sizeof(T) * num_entries for primitive types, the sum of 4 + length over
\* the entries for byte arrays, type_length * num_entries for fixed length
\* byte arrays; Put of a value that is already an entry leaves it as it is.
C20_DictEncodedSizeIsTheDictionaryPage ==
    /\ dict_encoded_size_ = Len(WriteDict(E))
    /\ dtype \in PrimitiveDTypes => dict_encoded_size_ = SizeOf(dtype) * num_entries(E)
    /\ dtype = "BYTE_ARRAY" => dict_encoded_size_ = SumOfByteArraySizes(memo_table_)
    /\ dtype = "FIXED_LEN_BYTE_ARRAY" => dict_encoded_size_ = type_length_ * num_entries(E)
    /\ \A i \in 1 .. num_entries(E) :
          Put(E, memo_table_[i]).dict_encoded_size_ = dict_encoded_size_

\* ------------------------------------------------------------------------
\* SpecSpaced: the encoder and the decoder with the spaced calls, and pages
\* that are shorter than declared

\* Bounds: the length of the arrays given to PutSpaced, the largest byte of
\* a validity bitmap, the largest valid_bits_offset, and by how much the
\* number of values of a page can be declared too large.
MaxSpacedLen == 3

MaxValidByte == 7

MaxValidBitsOffset == 1

MaxOverDeclared == 1

MaxSpacedCalls == 1

\* BitmapReader / BitUtil::GetBit: bit i of the bitmap, the lowest bit of
\* each byte first.
GetBit(valid_bits, i) == (valid_bits[(i \div 8) + 1] \div (2 ^ (i % 8))) % 2 = 1

\* The positions (from 0) of n positions whose validity bit is set, in order.
SetPositions(n, valid_bits, valid_bits_offset) ==
    SelectSeq([i \in 1 .. n |-> i - 1],
              LAMBDA i : GetBit(valid_bits, valid_bits_offset + i))

\* PutSpaced that reads the bitmap from bit 0.
RECURSIVE PutSpacedFromBitZero(_, _, _, _)
PutSpacedFromBitZero(e, src, valid_bits, valid_bits_offset) ==
    IF src = <<>> THEN e
    ELSE PutSpacedFromBitZero(IF GetBit(valid_bits, 0) THEN Put(e, Head(src)) ELSE e,
                              Tail(src), <<valid_bits[1] \div 2>>, valid_bits_offset)

\* DictEncoder::PutSpaced(src, num_values, valid_bits, valid_bits_offset):
\* for each position in order, Put(src[i]) when the reader's bit is set.
RECURSIVE PutSpaced(_, _, _, _)
PutSpaced(e, src, valid_bits, valid_bits_offset) ==
    IF src = <<>> THEN e
    ELSE PutSpaced(IF GetBit(valid_bits, valid_bits_offset) THEN Put(e, Head(src)) ELSE e,
                   Tail(src), valid_bits, valid_bits_offset + 1)

\* The arrays and bitmaps given to the spaced calls: arrays of two
\* different values.
SpacedValues(t, tl) ==
    CASE t \in PrimitiveDTypes -> 0 .. 1
      [] t = "BYTE_ARRAY" -> {<<1>>, <<2, 1>>}
      [] t = "FIXED_LEN_BYTE_ARRAY" -> {[i \in 1 .. tl |-> b] : b \in ByteAlphabet}

SpacedArrays(t, tl) == UNION {[1 .. n -> SpacedValues(t, tl)] : n \in 2 .. MaxSpacedLen}

ValidBits == {<<b>> : b \in 0 .. MaxValidByte}

\* encoder.PutSpaced(src, num_values, valid_bits, valid_bits_offset)
DictPutSpaced ==
    /\ Encoding
    /\ calls.spaced < MaxSpacedCalls
    /\ \E src \in SpacedArrays(dtype, type_length_), valid_bits \in ValidBits,
          valid_bits_offset \in 0 .. MaxValidBitsOffset :
          LET e == PutSpaced(E, src, valid_bits, valid_bits_offset) IN
          /\ SetE(e)
          /\ put_values' = put_values \o
                 [k \in 1 .. Len(SetPositions(Len(src), valid_bits, valid_bits_offset)) |->
                     src[SetPositions(Len(src), valid_bits, valid_bits_offset)[k] + 1]]
          /\ last_call' = [op |-> "PutSpaced", src |-> src, valid_bits |-> valid_bits,
                           valid_bits_offset |-> valid_bits_offset,
                           before |-> E, after |-> e]
    /\ calls' = [calls EXCEPT !.spaced = @ + 1]
    /\ UNCHANGED <<hashVars, dtype, descr_type_length, enc_proc, pages, last_write, dec,
                   bdict, dbp, dlba, dba, bhash>>

\* DecodeSpaced that gives every position a value, the null positions too.
DecodeSpacedFillsNulls(d, num_values, null_count, valid_bits, valid_bits_offset) ==
    LET all == RleDecode(d.bit_width, d.data, d.pos + num_values)
        idx == SubSeq(all, d.pos + 1, Len(all))
    IN  IF \E i \in 1 .. Len(idx) : idx[i] >= Len(d.dictionary_)
        THEN [d |-> [d EXCEPT !.stage = "undefined"], written |-> <<>>]
        ELSE IF Len(idx) # num_values
        THEN [d |-> [d EXCEPT !.stage = "error", !.eof = TRUE], written |-> <<>>]
        ELSE [d |-> [d EXCEPT !.pos = @ + num_values,
                              !.out = @ \o [k \in 1 .. num_values |-> d.dictionary_[idx[k] + 1]]],
              written |-> [k \in 1 .. num_values |->
                              [at |-> k - 1, value |-> d.dictionary_[idx[k] + 1]]]]

\* DictionaryDecoder::DecodeSpaced(buffer, num_values, null_count, valid_bits,
\* valid_bits_offset): GetBatchWithDictSpaced reads num_values - null_count
\* indices and stores dictionary_[index] at the positions whose validity bit
\* is set; when it cannot, DecodeSpaced throws EofException.  written is
\* what was stored in buffer and where; num_values_ is not touched.
DecodeSpaced(d, num_values, null_count, valid_bits, valid_bits_offset) ==
    LET need == num_values - null_count
        at == SetPositions(num_values, valid_bits, valid_bits_offset)
        all == RleDecode(d.bit_width, d.data, d.pos + need)
        idx == SubSeq(all, d.pos + 1, Len(all))
    IN  IF \E i \in 1 .. Len(idx) : idx[i] >= Len(d.dictionary_)
        THEN [d |-> [d EXCEPT !.stage = "undefined"], written |-> <<>>]
        ELSE IF Len(idx) # need
        THEN [d |-> [d EXCEPT !.stage = "error", !.eof = TRUE], written |-> <<>>]
        ELSE [d |-> [d EXCEPT !.pos = @ + need,
                              !.out = @ \o [k \in 1 .. need |-> d.dictionary_[idx[k] + 1]]],
              written |-> [k \in 1 .. need |->
                              [at |-> at[k], value |-> d.dictionary_[idx[k] + 1]]]]

\* decoder.SetData(num_values, data, len) with an index page whose number
\* of values is declared too large, or whose last byte is missing
DecoderSetDataDeclared ==
    /\ dec.stage = "dict"
    /\ \E p \in 1 .. Len(pages), over \in 0 .. MaxOverDeclared, cut \in 0 .. 1 :
          dec' = [SetData(dec, pages[p].num_values + over,
                          SubSeq(pages[p].data, 1, Len(pages[p].data) - cut))
                     EXCEPT !.page = p]
    /\ UNCHANGED <<hashVars, moreVars, dictEncoderVars, calls>>

\* decoder.Decode(buffer, max_values), with the call kept in last_call
DecoderDecodeCall ==
    /\ dec.stage = "data"
    /\ calls.decode < MaxDecodeCalls
    /\ \E max_values \in {1, MaxBatch} :
          /\ dec' = Decode(dec, max_values)
          /\ last_call' = [op |-> "Decode", max_values |-> max_values,
                           before |-> dec, after |-> Decode(dec, max_values)]
    /\ calls' = [calls EXCEPT !.decode = @ + 1]
    /\ UNCHANGED <<hashVars, dictEncoderVars, bdict, dbp, dlba, dba, bhash>>

\* decoder.DecodeSpaced(buffer, num_values, null_count, valid_bits,
\* valid_bits_offset); null_count is the number of clear bits
DecoderDecodeSpaced ==
    /\ dec.stage = "data"
    /\ calls.decode < MaxDecodeCalls
    /\ calls.spaced < MaxSpacedCalls
    /\ \E num_values \in {MaxSpacedLen}, valid_bits \in ValidBits,
          valid_bits_offset \in 0 .. MaxValidBitsOffset :
          LET set == Len(SetPositions(num_values, valid_bits, valid_bits_offset))
              r == DecodeSpaced(dec, num_values, num_values - set, valid_bits,
                                valid_bits_offset)
          IN  /\ dec' = r.d
              /\ last_call' = [op |-> "DecodeSpaced", num_values |-> num_values,
                               null_count |-> num_values - set,
                               valid_bits |-> valid_bits,
                               valid_bits_offset |-> valid_bits_offset,
                               before |-> dec, after |-> r.d, written |-> r.written]
    /\ calls' = [calls EXCEPT !.decode = @ + 1, !.spaced = @ + 1]
    /\ UNCHANGED <<hashVars, dictEncoderVars, bdict, dbp, dlba, dba, bhash>>

\* SpecSpaced: the encoder with PutSpaced
NextSpaced ==
    \/ DictPut
    \/ DictPutSpaced
    \/ DictFlushValues

SpecSpaced == InitDict /\ [][NextSpaced]_vars

\* SpecDecode: the decoder with pages that can be shorter than declared,
\* Decode and DecodeSpaced
NextDecode ==
    \/ DictPutMany
    \/ DictFlushValues
    \/ DecoderSetDict
    \/ DecoderSetDataDeclared
    \/ DecoderDecodeCall
    \/ DecoderDecodeSpaced

SpecDecode == InitDict /\ [][NextDecode]_vars

\* ------------------------------------------------------------------------
\* Properties of the spaced calls and of Decode

\* The values of src at the positions whose validity bit is set.
ValidValues(src, valid_bits, valid_bits_offset) ==
    [k \in 1 .. Len(SetPositions(Len(src), valid_bits, valid_bits_offset)) |->
        src[SetPositions(Len(src), valid_bits, valid_bits_offset)[k] + 1]]

\* C21: PutSpaced buffers one index for each position whose validity bit is
\* set, in position order, and each is the index Put gives that value (the
\* encoder is left as by Put of the valid values one after the other); the
\* other positions add no index and no dictionary entry.
C21_PutSpacedPutsTheValidValues ==
    last_call.op = "PutSpaced" =>
        LET valid == ValidValues(last_call.src, last_call.valid_bits,
                                 last_call.valid_bits_offset)
            before == last_call.before
            after == last_call.after
            new == SubSeq(after.buffered_indices_, Len(before.buffered_indices_) + 1,
                          Len(after.buffered_indices_))
        IN  /\ after = PutMany(before, valid)
            /\ IsPrefix(before.buffered_indices_, after.buffered_indices_)
            /\ Len(new) = Len(valid)
            /\ \A k \in 1 .. Len(new) : after.memo_table_[new[k] + 1] = valid[k]
            /\ Range(after.memo_table_) = Range(before.memo_table_) \cup Range(valid)

C21_Witness ==
    /\ last_call.op = "PutSpaced"
    /\ Len(last_call.src) = MaxSpacedLen
    /\ last_call.valid_bits_offset = 1
    /\ SetPositions(MaxSpacedLen, last_call.valid_bits, 1) = <<0, 1>>
    /\ last_call.before.memo_table_ # <<>>
    /\ last_call.src[MaxSpacedLen] \notin Range(last_call.after.memo_table_)
    /\ Len(last_call.after.memo_table_) > Len(last_call.before.memo_table_)

\* The number of indices the stream of decoder d still yields, up to n.
StreamYields(d, n) == Len(RleDecode(d.bit_width, d.data, d.pos + n)) - d.pos

\* C22: Decode(buffer, max_values) returns m = min(max_values, remaining),
\* writes m dictionary values and takes m off the remaining count; when the
\* index stream yields fewer than m indices it throws Eof and the remaining
\* count is as before.  (For streams whose indices are dictionary indices.)
C22_DecodeCountsWhatItReturns ==
    (last_call.op = "Decode" /\ last_call.after.stage # "undefined") =>
        LET before == last_call.before
            after == last_call.after
            m == Min(last_call.max_values, before.num_values_)
        IN  /\ StreamYields(before, m) >= m =>
                  /\ after.stage = "data" /\ after.ret = m
                  /\ Len(after.out) = Len(before.out) + m
                  /\ IsPrefix(before.out, after.out)
                  /\ \A k \in Len(before.out) + 1 .. Len(after.out) :
                         \E i \in 1 .. Len(after.dictionary_) : after.out[k] = after.dictionary_[i]
                  /\ after.num_values_ = before.num_values_ - m
            /\ StreamYields(before, m) < m =>
                  /\ after.stage = "error" /\ after.eof
                  /\ after.num_values_ = before.num_values_

C22_Witness ==
    /\ last_call.op = "Decode"
    /\ calls.decode = 2
    /\ last_call.before.out # <<>>
    /\ last_call.before.num_values_ > 0
    /\ last_call.max_values > last_call.before.num_values_
    /\ last_call.after.stage = "error"
    /\ last_call.after.num_values_ = last_call.before.num_values_

\* C23: DecodeSpaced(buffer, n, null_count, valid_bits, offset) takes
\* n - null_count indices from the stream and stores the k-th decoded value
\* at the position of the k-th set validity bit, so the values keep their
\* order; nothing is stored at the other positions.
C23_DecodeSpacedScattersInOrder ==
    (last_call.op = "DecodeSpaced" /\ last_call.after.stage = "data") =>
        LET before == last_call.before
            after == last_call.after
            need == last_call.num_values - last_call.null_count
            at == SetPositions(last_call.num_values, last_call.valid_bits,
                               last_call.valid_bits_offset)
            page == pages[before.page]
        IN  /\ after.pos = before.pos + need
            /\ Len(last_call.written) = need
            /\ \A k \in 1 .. need :
                  /\ last_call.written[k].at = at[k]
                  /\ before.pos + k <= Len(page.values) =>
                        last_call.written[k].value = page.values[before.pos + k]
            /\ \A j, k \in 1 .. need :
                  j < k => last_call.written[j].at < last_call.written[k].at

C23_Witness ==
    /\ last_call.op = "DecodeSpaced" /\ last_call.after.stage = "data"
    /\ last_call.before.pos = 1
    /\ last_call.null_count = 1
    /\ Len(last_call.written) = 2
    /\ last_call.written[1].at = 0 /\ last_call.written[2].at = 2
    /\ last_call.written[1].value # last_call.written[2].value
    /\ Len(pages[last_call.before.page].values) > 2

\* ------------------------------------------------------------------------
\* SpecBytes: SetDict of a ByteArray or FLBA dictionary decoder, with the
\* memory its entries point to

\* The largest number of dictionary entries.
MaxEntries == 3

ByteTypes == {"BYTE_ARRAY", "FIXED_LEN_BYTE_ARRAY"}

\* The dictionaries: up to MaxEntries values of the type.
Dictionaries(t, tl) == UNION {[1 .. n -> DictValues(t, tl)] : n \in 0 .. MaxEntries}

\* The dictionary page of the values vs, as WriteDict lays it out.
DictionaryPage(t, tl, vs) ==
    WriteDict([dtype |-> t, type_length_ |-> tl, memo_table_ |-> vs,
               buffered_indices_ |-> <<>>, dict_encoded_size_ |-> 0])

\* What the plain decoder hands out for the page: for each value its length
\* and a pointer into the page (the bytes after the 4 byte length of a
\* ByteArray, the next tl bytes of an FLBA).
RECURSIVE PlainPointers(_, _, _, _, _)
PlainPointers(t, tl, page, n, off) ==
    IF n = 0 THEN <<>>
    ELSE IF t = "BYTE_ARRAY"
    THEN LET len == FromLittleEndian(SubSeq(page, off + 1, off + 4)) IN
         <<[len |-> len, ptr |-> [buf |-> "page", off |-> off + 4]]>>
             \o PlainPointers(t, tl, page, n - 1, off + 4 + len)
    ELSE <<[len |-> tl, ptr |-> [buf |-> "page", off |-> off]]>>
             \o PlainPointers(t, tl, page, n - 1, off + tl)

\* The bytes an entry points to, in the memory of decoder b.
EntryBytes(b, entry) ==
    LET mem == IF entry.ptr.buf = "page" THEN b.page ELSE b.byte_array_data_ IN
    [k \in 1 .. entry.len |-> mem[entry.ptr.off + k]]

\* The sum of the lengths of the first n entries.
RECURSIVE TotalSize(_, _)
TotalSize(entries, n) == IF n = 0 THEN 0 ELSE entries[n].len + TotalSize(entries, n - 1)

\* SetDict that leaves the pointers where the plain decoder put them.
SetDictKeepsPagePointers(b, t, tl, page, n) ==
    LET decoded == PlainPointers(t, tl, page, n, 0)
        src == [b EXCEPT !.page = page]
    IN  [b EXCEPT !.stage = "set", !.t = t, !.tl = tl, !.page = page, !.source = decoded,
                  !.byte_array_data_ =
                      Flatten([i \in 1 .. n |-> EntryBytes(src, decoded[i])]),
                  !.dictionary_ = decoded]

\* DictionaryDecoder<ByteArrayType>::SetDict and <FLBAType>::SetDict: the
\* plain decoder fills dictionary_; byte_array_data_ is resized to the total
\* size (for ByteArray only when that is positive); each entry's bytes are
\* copied to byte_array_data_ at the running offset and its pointer is set
\* there.  For FLBA every length is descr_->type_length().
SetDictBytes(b, t, tl, page, n) ==
    LET decoded == PlainPointers(t, tl, page, n, 0)
        src == [b EXCEPT !.page = page]
    IN  [b EXCEPT !.stage = "set", !.t = t, !.tl = tl, !.page = page, !.source = decoded,
                  !.byte_array_data_ =
                      Flatten([i \in 1 .. n |-> EntryBytes(src, decoded[i])]),
                  !.dictionary_ =
                      [i \in 1 .. n |->
                          [len |-> decoded[i].len,
                           ptr |-> [buf |-> "own", off |-> TotalSize(decoded, i - 1)]]]]

InitBytes ==
    /\ NoHashKernel
    /\ NoDictEncoder
    /\ NoMore

\* decoder.SetDict(plain decoder over a dictionary page)
BytesSetDict ==
    /\ bdict.stage = "none"
    /\ \E t \in ByteTypes, tl \in 1 .. MaxTypeLength :
          \E vs \in Dictionaries(t, tl) :
              bdict' = SetDictBytes([bdict EXCEPT !.values = vs], t, tl,
                                    DictionaryPage(t, tl, vs), Len(vs))
    /\ UNCHANGED <<hashVars, dictVars, last_call, dbp, dlba, dba, bhash>>

\* The page buffer is used for something else: every byte of it changes.
BytesOverwritePage ==
    /\ bdict.stage = "set"
    /\ \E fill \in {0, 255} :
          bdict' = [bdict EXCEPT !.stage = "overwritten",
                                 !.page = [k \in 1 .. Len(bdict.page) |->
                                              IF bdict.page[k] = fill THEN 255 - fill ELSE fill]]
    /\ UNCHANGED <<hashVars, dictVars, last_call, dbp, dlba, dba, bhash>>

NextBytes ==
    \/ BytesSetDict
    \/ BytesOverwritePage

SpecBytes == InitBytes /\ [][NextBytes]_vars

\* C24: after SetDict of a ByteArray or FLBA decoder, entry i has the length
\* and the bytes of the i-th value of the source decoder; every entry
\* points into byte_array_data_, the entries lie back to back in dictionary
\* order; and after the source page is overwritten the entries still have
\* the bytes of the values.
C24_SetDictCopiesTheBytes ==
    bdict.stage \in {"set", "overwritten"} =>
        /\ Len(bdict.dictionary_) = Len(bdict.values)
        /\ \A i \in 1 .. Len(bdict.dictionary_) :
              LET entry == bdict.dictionary_[i] IN
              /\ entry.len = bdict.source[i].len
              /\ entry.len = Len(bdict.values[i])
              /\ entry.ptr.buf = "own"
              /\ entry.ptr.off >= 0
              /\ entry.ptr.off + entry.len <= Len(bdict.byte_array_data_)
              /\ entry.ptr.off = TotalSize(bdict.dictionary_, i - 1)
              /\ EntryBytes(bdict, entry) = bdict.values[i]

C24_Witness ==
    /\ bdict.stage = "overwritten"
    /\ bdict.t = "BYTE_ARRAY"
    /\ Len(bdict.dictionary_) = MaxEntries
    /\ bdict.dictionary_[1].len = 2 /\ bdict.dictionary_[2].len = 0
    /\ bdict.dictionary_[MaxEntries].len = 1
    /\ EntryBytes(bdict, bdict.dictionary_[1]) = <<2, 1>>
    /\ \A k \in 1 .. Len(bdict.page) : bdict.page[k] \in {0, 255}


\* ---------------------------------------------------------------------
\* parquet: DeltaBitPackDecoder (encoding-internal.h 382-478)

\* Int32Bits and Int64Bits are the widths of int32_t and int64_t, scaled
\* down; BlockSize is the block_size of the pages.
Int32Bits == 4
Int64Bits == 6
BlockSize == 2
MaxBlocks == 2
MaxDeltaPages == 2

\* The value an integer of that many bits keeps of v (two's complement).
WrapTo(bits, v) ==
    LET r == v % (2 ^ bits)
    IN  IF r >= 2 ^ (bits - 1) THEN r - 2 ^ bits ELSE r

WrapInt32(v) == WrapTo(Int32Bits, v)

\* typename DType::c_type
CTypeBits(T) == IF T = "INT32" THEN Int32Bits ELSE Int64Bits

\* The least value of the scaled int64_t that is no int32_t.
BigValue == 2 ^ (Int32Bits - 1)

\* The blocks of a page, as the bit reader hands them out: the header
\* (block_size, num_mini_blocks, values_in_block, first_value), min_delta,
\* one bit width per mini block and block_size packed deltas.
FirstValues(T) == IF T = "INT32" THEN {1, 0 - 2} ELSE {1, BigValue}

BitWidths == {<<1>>, <<1, 2>>, <<2, 1>>}

Blocks(T) ==
    {[block_size |-> BlockSize, num_mini_blocks |-> Len(w),
      values_in_block |-> c, first_value |-> f, min_delta |-> m,
      bit_widths |-> w, deltas |-> [i \in 1 .. BlockSize |-> i % 2]] :
        w \in BitWidths, c \in {BlockSize, BlockSize + 1},
        f \in FirstValues(T), m \in {0 - 1, 1}}

DeltaPages(T) ==
    UNION {[1 .. n -> Blocks(T)] : n \in 1 .. MaxBlocks}

\* How a call with undefined behaviour comes out: the process dies, the
\* read yields whatever is there, or the read yields what a valid empty
\* (or not yet reused) buffer would have given.
UndefinedOutcomes == {"crash", "garbage", "benign"}

\* A std::shared_ptr<ResizableBuffer> and a pointer to its bytes.
NullBuffer == [null |-> TRUE, data |-> <<>>]

\* DeltaBitPackDecoder(descr, pool): pool_ is the only member with an
\* initializer.
NewDeltaBitPackDecoder(T) ==
    [status |-> "ok", T |-> T, num_values_ |-> 0,
     page |-> <<>>, block |-> 0, pos |-> 0,
     values_current_block_ |-> 0, num_mini_blocks_ |-> 0,
     values_per_mini_block_ |-> 0, values_current_mini_block_ |-> 0,
     min_delta_ |-> 0, mini_block_idx_ |-> 0,
     delta_bit_widths_ |-> NullBuffer, bit_width_data |-> NullBuffer,
     delta_bit_width_ |-> 0, last_value_ |-> 0,
     uninitialized |-> {"values_current_block_", "num_mini_blocks_",
                        "values_per_mini_block_", "values_current_mini_block_",
                        "min_delta_", "mini_block_idx_", "delta_bit_width_",
                        "last_value_"},
     out |-> <<>>, ret |-> 0, pages_set |-> 0, headers |-> 0]

\* SetData(num_values, data, len)
DeltaSetData(d, num_values, page) ==
    [d EXCEPT !.num_values_ = num_values,
              !.page = page, !.block = 0, !.pos = 0,
              !.values_current_block_ = 0,
              !.values_current_mini_block_ = 0,
              !.uninitialized = @ \ {"values_current_block_",
                                     "values_current_mini_block_"},
              !.out = <<>>, !.ret = 0, !.pages_set = @ + 1, !.headers = 0]

\* InitBlock(): the header and the bit widths of the next block.
InitBlock(d) ==
    IF d.block >= Len(d.page)
    THEN [d EXCEPT !.status = "eof"]
    ELSE LET b == d.page[d.block + 1]
         IN  [d EXCEPT !.block = @ + 1, !.pos = 0,
                       !.num_mini_blocks_ = WrapInt32(b.num_mini_blocks),
                       !.values_current_block_ = WrapInt32(b.values_in_block),
                       !.last_value_ = WrapInt32(b.first_value),
                       !.delta_bit_widths_ = [null |-> FALSE, data |-> b.bit_widths],
                       !.min_delta_ = WrapInt32(b.min_delta),
                       !.values_per_mini_block_ = b.block_size \div b.num_mini_blocks,
                       !.mini_block_idx_ = 0,
                       !.delta_bit_width_ = b.bit_widths[1],
                       !.values_current_mini_block_ = b.block_size \div b.num_mini_blocks,
                       !.uninitialized = {},
                       !.headers = @ + 1]

\* buffer[i] = last_value_
EmitLastValue(d) ==
    [d EXCEPT !.out = Append(@, [block |-> d.block, pos |-> d.pos,
                                 value |-> d.last_value_])]

\* The bit width the page has for the deltas the reader stands at.
PageBitWidth(d) ==
    d.page[d.block].bit_widths[(d.pos \div d.values_per_mini_block_) + 1]

\* Lines 454-459: one delta of delta_bit_width_ bits.  Bits read with
\* another width than the page has there, or read from the header, are not
\* the deltas of the page.
ReadDelta(d) ==
    IF d.block = 0 \/ d.uninitialized # {} THEN [d EXCEPT !.status = "undefined"]
    ELSE IF d.pos >= Len(d.page[d.block].deltas) THEN [d EXCEPT !.status = "eof"]
    ELSE IF d.delta_bit_width_ # PageBitWidth(d) THEN [d EXCEPT !.status = "undefined"]
    ELSE LET delta == d.page[d.block].deltas[d.pos + 1] + d.min_delta_
         IN  EmitLastValue(
                 [d EXCEPT !.pos = @ + 1,
                           !.last_value_ = WrapInt32(@ + WrapInt32(delta)),
                           !.values_current_mini_block_ = @ - 1])

\* Line 444: bit_width_data[mini_block_idx_], where bit_width_data is the
\* pointer taken at line 439, before any InitBlock() of this call gave
\* delta_bit_widths_ another buffer.
NextBitWidth(d, idx, outcome) ==
    IF d.bit_width_data = d.delta_bit_widths_
    THEN [d EXCEPT !.mini_block_idx_ = idx,
                   !.delta_bit_width_ = d.bit_width_data.data[idx + 1],
                   !.values_current_mini_block_ = d.values_per_mini_block_]
    ELSE IF outcome = "benign" /\ idx < Len(d.bit_width_data.data)
    THEN [d EXCEPT !.mini_block_idx_ = idx,
                   !.delta_bit_width_ = d.bit_width_data.data[idx + 1],
                   !.values_current_mini_block_ = d.values_per_mini_block_]
    ELSE IF outcome = "garbage" THEN [d EXCEPT !.status = "undefined"]
    ELSE [d EXCEPT !.status = "crashed"]

\* The loop of GetInternal, lines 440-460, for n more values.
RECURSIVE GetInternalLoop(_, _, _)
GetInternalLoop(d, n, outcome) ==
    IF n = 0 \/ d.status # "ok" THEN d
    ELSE IF d.values_current_mini_block_ = 0
    THEN LET idx == d.mini_block_idx_ + 1
         IN  IF "mini_block_idx_" \notin d.uninitialized
                /\ idx < Len(d.delta_bit_widths_.data)
             THEN LET e == NextBitWidth(d, idx, outcome)
                  IN  IF e.status # "ok" THEN e
                      ELSE GetInternalLoop(ReadDelta(e), n - 1, outcome)
             ELSE LET e == InitBlock(d)
                  IN  IF e.status # "ok" THEN e
                      ELSE GetInternalLoop(EmitLastValue(e), n - 1, outcome)
    ELSE GetInternalLoop(ReadDelta(d), n - 1, outcome)

\* GetInternal(buffer, max_values).  Line 439 reads through
\* delta_bit_widths_, which is null until the first InitBlock(), and line
\* 442 increments mini_block_idx_, which nothing has set by then.
GetInternal(d, max_values, outcome) ==
    LET n == Min(max_values, d.num_values_)
        c == [d EXCEPT !.bit_width_data = d.delta_bit_widths_, !.ret = 0]
        r == GetInternalLoop(c, n, outcome)
    IN  IF d.delta_bit_widths_.null /\ outcome = "crash"
        THEN [c EXCEPT !.status = "crashed"]
        ELSE IF d.delta_bit_widths_.null /\ outcome = "garbage"
        THEN [c EXCEPT !.status = "undefined"]
        ELSE IF r.status # "ok" THEN r
        ELSE [r EXCEPT !.num_values_ = @ - n, !.ret = n]

\* Decode(buffer, max_values)
DeltaDecode(d, max_values, outcome) == GetInternal(d, max_values, outcome)

\* SpecDelta: one DeltaBitPackDecoder, the pages it is given and the
\* Decode calls on it.
InitDelta ==
    /\ NoHashKernel
    /\ NoDictEncoder

\* The number of values a page holds by its block headers.
RECURSIVE DeclaredCount(_)
DeclaredCount(page) ==
    IF page = <<>> THEN 0
    ELSE page[1].values_in_block + DeclaredCount(Tail(page))

DeltaNew ==
    /\ dbp = NoDelta
    /\ \E T \in {"INT32", "INT64"} :
           \E page \in DeltaPages(T) :
               dbp' = DeltaSetData(NewDeltaBitPackDecoder(T),
                                   DeclaredCount(page), page)
    /\ UNCHANGED <<hashVars, dictVars, last_call, bdict, dlba, dba, bhash>>

\* The next page of the column, to the same decoder.
DeltaNextPage ==
    /\ dbp.status = "ok"
    /\ dbp.pages_set < MaxDeltaPages
    /\ dbp.num_values_ = 0
    /\ \E page \in {p \in DeltaPages(dbp.T) :
                         Len(p) = 1 /\ p[1].min_delta = 1 /\ p[1].first_value = 1} :
           dbp' = DeltaSetData(dbp, DeclaredCount(page), page)
    /\ last_call' = NoCall
    /\ UNCHANGED <<hashVars, dictVars, bdict, dlba, dba, bhash>>

DeltaDecodeCall ==
    /\ dbp.status = "ok"
    /\ dbp.num_values_ > 0
    /\ \E max_values \in {1, BlockSize + 1, MaxBatch} :
           \E outcome \in UndefinedOutcomes :
               /\ dbp' = DeltaDecode(dbp, max_values, outcome)
               /\ last_call' = [op |-> "Decode", max_values |-> max_values,
                                before |-> dbp]
    /\ UNCHANGED <<hashVars, dictVars, bdict, dlba, dba, bhash>>

NextDelta == DeltaNew \/ DeltaNextPage \/ DeltaDecodeCall

SpecDelta == InitDelta /\ [][NextDelta]_vars


\* The value at position pos of block b by the recurrence of the format,
\* in integers of that many bits: first_value, then the value before plus
\* min_delta plus the packed delta.
RECURSIVE BlockValue(_, _, _)
BlockValue(bits, b, pos) ==
    IF pos = 0 THEN WrapTo(bits, b.first_value)
    ELSE WrapTo(bits, BlockValue(bits, b, pos - 1) + b.min_delta + b.deltas[pos])

\* C25: every Decode call of a delta-bit-packed decoder returns values:
\* the first output of a block is the first_value of its header, every
\* later one is the output before it plus min_delta plus the next packed
\* delta, and the running value carries over from one Decode call to the
\* next.  (Stated for DeltaBitPackDecoder<Int32Type>.)
C25_DeltaRecurrence ==
    (dbp.status # "none" /\ dbp.T = "INT32") =>
        /\ dbp.status \in {"ok", "eof"}
        /\ \A k \in 1 .. Len(dbp.out) :
               LET o == dbp.out[k]
                   b == dbp.page[o.block]
               IN  IF o.pos = 0 THEN o.value = b.first_value
                   ELSE /\ k > 1
                        /\ dbp.out[k - 1].block = o.block
                        /\ dbp.out[k - 1].pos = o.pos - 1
                        /\ o.value = WrapTo(Int32Bits,
                                            dbp.out[k - 1].value + b.min_delta
                                                + b.deltas[o.pos])

\* C26: every value a DeltaBitPackDecoder<Int64Type> returns is the value
\* of the 64-bit sequence the page holds, not its low 32 bits.
C26_Int64AtFullPrecision ==
    (dbp.status # "none" /\ dbp.T = "INT64") =>
        \A k \in 1 .. Len(dbp.out) :
            dbp.out[k].value =
                BlockValue(Int64Bits, dbp.page[dbp.out[k].block], dbp.out[k].pos)

\* C27: the decoder reads the next block header exactly when it has
\* returned the values_in_block values the current header declares: no
\* value of a block is returned beyond that count, and no header is read
\* before the count is reached.
C27_NextHeaderAtValuesInBlock ==
    dbp.status # "none" =>
        \A k \in 1 .. Len(dbp.out) :
            LET o == dbp.out[k]
            IN  /\ o.pos + 1 <= dbp.page[o.block].values_in_block
                /\ (k > 1 /\ o.pos = 0) =>
                       dbp.out[k - 1].pos + 1
                           = dbp.page[dbp.out[k - 1].block].values_in_block


\* ---------------------------------------------------------------------
\* parquet: DeltaLengthByteArrayDecoder (encoding-internal.h 480-520)

\* The values a delta-bit-packed page of int32 holds by its format: from
\* each block the values_in_block values its header declares.
RECURSIVE PageValues(_)
PageValues(page) ==
    IF page = <<>> THEN <<>>
    ELSE [i \in 1 .. page[1].values_in_block |->
              BlockValue(Int32Bits, page[1], i - 1)] \o PageValues(Tail(page))

RECURSIVE SumSeq(_)
SumSeq(xs) == IF xs = <<>> THEN 0 ELSE xs[1] + SumSeq(Tail(xs))

\* The pages of lengths: delta-bit-packed int32 pages that hold no
\* negative value.
LengthPages ==
    {p \in DeltaPages("INT32") :
        \A k \in 1 .. Len(p) :
            \A i \in 0 .. BlockSize : BlockValue(Int32Bits, p[k], i) >= 0}

\* The payload after the lengths: the bytes of the values, one after the
\* other.
Payload(n) == [i \in 1 .. n |-> (i % 2) + 1]

\* DeltaLengthByteArrayDecoder(descr, pool) and SetData(num_values, data,
\* len) for a page that is not empty: total_lengths_len, the lengths, the
\* payload.  data_ is kept as the offset from the start of the payload.
DeltaLengthSetData(num_values, lengths, payload) ==
    [status |-> "ok", num_values_ |-> num_values,
     len_decoder_ |-> DeltaSetData(NewDeltaBitPackDecoder("INT32"),
                                   num_values, lengths),
     payload |-> payload, data_ |-> 0, len_ |-> Len(payload),
     out |-> <<>>, ret |-> 0]

\* The loop of Decode, lines 505-510, over the lengths just decoded.
RECURSIVE TakeLengths(_, _)
TakeLengths(d, lengths) ==
    IF lengths = <<>> THEN d
    ELSE TakeLengths([d EXCEPT !.out = Append(@, [len |-> lengths[1],
                                                   ptr |-> d.data_]),
                               !.data_ = @ + lengths[1],
                               !.len_ = @ - lengths[1]],
                     Tail(lengths))

\* Decode(buffer, max_values)
DeltaLengthDecode(d, max_values, outcome) ==
    LET n == Min(max_values, d.num_values_)
        before == Len(d.len_decoder_.out)
        ld == DeltaDecode(d.len_decoder_, n, outcome)
        lengths == [i \in 1 .. Len(ld.out) - before |-> ld.out[before + i].value]
    IN  IF ld.status # "ok"
        THEN [d EXCEPT !.status = ld.status, !.len_decoder_ = ld, !.ret = 0]
        ELSE [TakeLengths([d EXCEPT !.len_decoder_ = ld], lengths)
                 EXCEPT !.num_values_ = @ - n, !.ret = n]

DeltaLengthNew ==
    /\ dlba = NoDelta
    /\ \E lengths \in LengthPages :
           dlba' = DeltaLengthSetData(DeclaredCount(lengths), lengths,
                                      Payload(SumSeq(PageValues(lengths))))
    /\ UNCHANGED <<hashVars, dictVars, last_call, bdict, dbp, dba, bhash>>

DeltaLengthDecodeCall ==
    /\ dlba.status = "ok"
    /\ dlba.num_values_ > 0
    /\ \E max_values \in {1, BlockSize, MaxBatch} :
           \E outcome \in UndefinedOutcomes :
               dlba' = DeltaLengthDecode(dlba, max_values, outcome)
    /\ UNCHANGED <<hashVars, dictVars, last_call, bdict, dbp, dba, bhash>>

NextDeltaLength == DeltaLengthNew \/ DeltaLengthDecodeCall

SpecDeltaLength == InitDelta /\ [][NextDeltaLength]_vars

\* C28: over any split into Decode calls, the i-th value a
\* DeltaLengthByteArrayDecoder returns has the i-th length of the page and
\* points into the payload at the sum of the lengths before it, and the
\* remaining payload length goes down by the lengths returned.
C28_DeltaLengthSlicesThePayload ==
    dlba.status # "none" =>
        /\ dlba.status = "ok"
        /\ Len(dlba.out) + dlba.num_values_ = Len(PageValues(dlba.len_decoder_.page))
        /\ \A i \in 1 .. Len(dlba.out) :
               /\ dlba.out[i].len = PageValues(dlba.len_decoder_.page)[i]
               /\ dlba.out[i].ptr =
                      SumSeq(SubSeq(PageValues(dlba.len_decoder_.page), 1, i - 1))
        /\ dlba.len_ = Len(dlba.payload)
                           - SumSeq(SubSeq(PageValues(dlba.len_decoder_.page),
                                           1, Len(dlba.out)))


\* ---------------------------------------------------------------------
\* parquet: DeltaByteArrayDecoder (encoding-internal.h 522-575)

\* The pages of prefix lengths: one block that starts at 0, the value
\* before the first being empty.
PrefixPages ==
    {<<[b EXCEPT !.first_value = 0, !.min_delta = 0]>> : b \in Blocks("INT32")}

\* A ByteArray: a length and a pointer, here with the bytes it points at
\* and the memory they are in.
NullByteArray == [len |-> 0, bytes |-> <<>>, memory |-> "nullptr"]

\* The bytes of the values a delta byte array page holds by its format:
\* the first prefix_len bytes of the value before, then the suffix.
RECURSIVE PrefixedValues(_, _, _, _)
PrefixedValues(prefixes, lengths, payload, last) ==
    IF prefixes = <<>> \/ lengths = <<>> THEN <<>>
    ELSE LET v == SubSeq(last, 1, prefixes[1]) \o SubSeq(payload, 1, lengths[1])
         IN  <<v>> \o PrefixedValues(Tail(prefixes), Tail(lengths),
                                     SubSeq(payload, lengths[1] + 1, Len(payload)), v)

\* DeltaByteArrayDecoder(descr, pool) and SetData(num_values, data, len)
\* for a page that is not empty: prefix_len_length, the prefix lengths,
\* then the suffixes as a delta-length page.
DeltaBytesSetData(num_values, prefixes, lengths, payload) ==
    [status |-> "ok", num_values_ |-> num_values,
     prefix_len_decoder_ |-> DeltaSetData(NewDeltaBitPackDecoder("INT32"),
                                          num_values, prefixes),
     suffix_decoder_ |-> DeltaLengthSetData(num_values, lengths, payload),
     last_value_ |-> NullByteArray,
     out |-> <<>>, ret |-> 0]

\* One turn of the loop of Decode, lines 552-563.  The value is built in a
\* malloc() block nothing frees; a prefix longer than the value before is
\* read past the end of that value's block.
DeltaBytesTake(d, pd, sd) ==
    LET prefix_len == pd.out[Len(pd.out)].value
        suffix == sd.out[Len(sd.out)]
        value == [len |-> prefix_len + suffix.len,
                  bytes |-> SubSeq(d.last_value_.bytes, 1, prefix_len)
                                \o SubSeq(d.suffix_decoder_.payload, suffix.ptr + 1,
                                          suffix.ptr + suffix.len),
                  memory |-> "malloc"]
    IN  IF pd.status # "ok"
        THEN [d EXCEPT !.status = pd.status, !.prefix_len_decoder_ = pd]
        ELSE IF sd.status # "ok"
        THEN [d EXCEPT !.status = sd.status, !.prefix_len_decoder_ = pd,
                       !.suffix_decoder_ = sd]
        ELSE IF prefix_len < 0 \/ prefix_len > d.last_value_.len
        THEN [d EXCEPT !.status = "undefined", !.prefix_len_decoder_ = pd,
                       !.suffix_decoder_ = sd]
        ELSE [d EXCEPT !.prefix_len_decoder_ = pd, !.suffix_decoder_ = sd,
                       !.out = Append(@, value), !.last_value_ = value]

\* Lines 553-556: the next prefix length and the next suffix, one value
\* from each decoder.
DeltaBytesNext(d, outcome) ==
    CHOOSE r \in {DeltaBytesTake(d, pd, sd) :
                     pd \in {DeltaDecode(d.prefix_len_decoder_, 1, outcome)},
                     sd \in {DeltaLengthDecode(d.suffix_decoder_, 1, outcome)}} : TRUE

RECURSIVE DeltaBytesLoop(_, _, _)
DeltaBytesLoop(d, n, outcome) ==
    IF n = 0 \/ d.status # "ok" THEN d
    ELSE CHOOSE r \in {DeltaBytesLoop(e, n - 1, outcome) :
                          e \in {DeltaBytesNext(d, outcome)}} : TRUE

\* Decode(buffer, max_values)
DeltaBytesDecode(d, max_values, outcome) ==
    LET n == Min(max_values, d.num_values_)
        r == DeltaBytesLoop([d EXCEPT !.ret = 0], n, outcome)
    IN  IF r.status # "ok" THEN r
        ELSE [r EXCEPT !.num_values_ = @ - n, !.ret = n]

DeltaBytesNew ==
    /\ dba = NoDelta
    /\ \E prefixes \in PrefixPages :
           \E lengths \in {p \in LengthPages :
                              /\ Len(p) = 1
                              /\ DeclaredCount(p) = DeclaredCount(prefixes)} :
               dba' = DeltaBytesSetData(DeclaredCount(prefixes), prefixes, lengths,
                                        Payload(SumSeq(PageValues(lengths))))
    /\ UNCHANGED <<hashVars, dictVars, last_call, bdict, dbp, dlba, bhash>>

DeltaBytesDecodeCall ==
    /\ dba.status = "ok"
    /\ dba.num_values_ > 0
    /\ \E max_values \in {1, BlockSize, MaxBatch} :
           \E outcome \in UndefinedOutcomes :
               dba' = DeltaBytesDecode(dba, max_values, outcome)
    /\ UNCHANGED <<hashVars, dictVars, last_call, bdict, dbp, dlba, bhash>>

NextDeltaBytes == DeltaBytesNew \/ DeltaBytesDecodeCall

SpecDeltaBytes == InitDelta /\ [][NextDeltaBytes]_vars

\* C29: the i-th value a DeltaByteArrayDecoder returns is the first
\* prefix_len_i bytes of the value before it followed by suffix_i, the
\* value before the first being empty and the value before carrying over
\* from one Decode call to the next; it is in memory of its own, not in
\* the input page.
C29_DeltaByteArrayPrefixes ==
    dba.status # "none" =>
        LET values == PrefixedValues(PageValues(dba.prefix_len_decoder_.page),
                                     PageValues(dba.suffix_decoder_.len_decoder_.page),
                                     dba.suffix_decoder_.payload, <<>>)
        IN  /\ dba.status = "ok"
            /\ Len(dba.out) + dba.num_values_ = Len(values)
            /\ \A i \in 1 .. Len(dba.out) :
                   /\ dba.out[i].bytes = values[i]
                   /\ dba.out[i].len = Len(values[i])
                   /\ dba.out[i].memory # "page"


\* ---------------------------------------------------------------------
\* Integer casts with allow_int_overflow (TestCast.ToIntDowncastSafe,
\* compute-test.cc 199-232; CastBuffer, numpy_to_arrow.cc 520-540)

\* The bits of a byte, scaled down, and the longest array cast.
ByteBits == 2
MaxCastLen == 2

\* The integer types and the casts to a narrower type: a signed source to
\* either signedness, as the tests have them (int16 to uint8, int32 to
\* int16), and an unsigned source to an unsigned target.
IntBytes(t) == IF t \in {"int8", "uint8"} THEN 1 ELSE 2

IntBits(t) == IntBytes(t) * ByteBits

IsSigned(t) == t \in {"int8", "int16"}

CastPairs == {<<"int16", "int8">>, <<"int16", "uint8">>, <<"uint16", "uint8">>}

\* std::numeric_limits<c_type>::min() and max()
MinOf(t) == IF IsSigned(t) THEN 0 - 2 ^ (IntBits(t) - 1) ELSE 0

MaxOf(t) == IF IsSigned(t) THEN 2 ^ (IntBits(t) - 1) - 1 ELSE 2 ^ IntBits(t) - 1

Representable(t, v) == MinOf(t) <= v /\ v <= MaxOf(t)

\* static_cast<c_type>(v): the two's-complement truncation
StaticCast(t, v) == IF IsSigned(t) THEN WrapTo(IntBits(t), v) ELSE v % (2 ^ IntBits(t))

\* Cast that looks at the value of every slot, the null ones too.
CastChecksNullSlots(in_type, out_type, values, is_valid, allow_int_overflow) ==
    LET out == [i \in 1 .. Len(values) |-> StaticCast(out_type, values[i])]
        lossy == \E i \in 1 .. Len(values) : StaticCast(in_type, out[i]) # values[i]
    IN  IF ~allow_int_overflow /\ lossy
        THEN [status |-> "Invalid", values |-> <<>>, is_valid |-> <<>>]
        ELSE [status |-> "OK", values |-> out, is_valid |-> is_valid]

\* compute::Cast(ctx, array, out_type, options, &out) between integer
\* types: every value is truncated to the target type; with
\* allow_int_overflow = false a slot that is not null and whose value does
\* not come back from the target type as it was makes the cast Invalid.
\* The validity bitmap is the input's.
Cast(in_type, out_type, values, is_valid, allow_int_overflow) ==
    LET out == [i \in 1 .. Len(values) |-> StaticCast(out_type, values[i])]
        lossy == \E i \in 1 .. Len(values) :
                     is_valid[i] /\ StaticCast(in_type, out[i]) # values[i]
    IN  IF ~allow_int_overflow /\ lossy
        THEN [status |-> "Invalid", values |-> <<>>, is_valid |-> <<>>]
        ELSE [status |-> "OK", values |-> out, is_valid |-> is_valid]

\* CastBuffer(in_type, input, length, valid_bitmap, null_count, out_type,
\* pool, &out): the cast with allow_int_overflow = false; on success *out
\* is the value buffer of the casted array.
CastBuffer(in_type, input, valid_bitmap, out_type) ==
    LET casted_array == Cast(in_type, out_type, input, valid_bitmap, FALSE)
    IN  IF casted_array.status # "OK"
        THEN [status |-> casted_array.status, out |-> <<>>]
        ELSE [status |-> "OK", out |-> casted_array.values]

\* The arrays of a type: values and validity of the same length.
IntArrays(t) ==
    UNION {[1 .. n -> MinOf(t) .. MaxOf(t)] : n \in 1 .. MaxCastLen}

Validities(n) == [1 .. n -> BOOLEAN]

InitIntCast ==
    /\ NoHashKernel
    /\ NoDictEncoder

\* CheckCase and CheckFails of the tests: one Cast of an array.
CastCall ==
    /\ last_call = NoCall
    /\ \E pair \in CastPairs :
           \E values \in IntArrays(pair[1]) :
               \E is_valid \in Validities(Len(values)) :
                   \E allow_int_overflow \in BOOLEAN :
                       last_call' =
                           [op |-> "Cast", in_type |-> pair[1], out_type |-> pair[2],
                            values |-> values, is_valid |-> is_valid,
                            allow_int_overflow |-> allow_int_overflow,
                            status |-> Cast(pair[1], pair[2], values, is_valid,
                                            allow_int_overflow).status,
                            out |-> Cast(pair[1], pair[2], values, is_valid,
                                         allow_int_overflow).values,
                            out_valid |-> Cast(pair[1], pair[2], values, is_valid,
                                               allow_int_overflow).is_valid]
    /\ UNCHANGED <<hashVars, dictVars, bdict, dbp, dlba, dba, bhash>>

CastBufferCall ==
    /\ last_call = NoCall
    /\ \E pair \in CastPairs :
           \E values \in IntArrays(pair[1]) :
               \E is_valid \in Validities(Len(values)) :
                   last_call' =
                       [op |-> "CastBuffer", in_type |-> pair[1], out_type |-> pair[2],
                        values |-> values, is_valid |-> is_valid,
                        allow_int_overflow |-> FALSE,
                        status |-> CastBuffer(pair[1], values, is_valid, pair[2]).status,
                        out |-> CastBuffer(pair[1], values, is_valid, pair[2]).out,
                        out_valid |-> is_valid]
    /\ UNCHANGED <<hashVars, dictVars, bdict, dbp, dlba, dba, bhash>>

NextIntCast == CastCall \/ CastBufferCall

SpecIntCast == InitIntCast /\ [][NextIntCast]_vars

CastSlots == 3
MaxCastOffset == 1

\* Milliseconds to the second (and so on down the units), seconds to the
\* day.
UnitRatio == 1000
SecondsInDay == 86400

\* Data types: a name and, for the time types, a unit.
Type(name, unit) == [name |-> name, unit |-> unit]

Plain(name) == Type(name, "none")

UnitRank(u) == IF u = "s" THEN 0 ELSE IF u = "ms" THEN 1 ELSE 2

IsIntegerType(t) == t.name \in {"int8", "uint8", "int16", "uint16", "int32", "int64"}

\* The bytes of a value.
PhysicalBytes(t) ==
    IF t.name \in {"int32", "date32", "time32"} THEN 4
    ELSE IF t.name \in {"int64", "date64", "time64", "timestamp"} THEN 8
    ELSE IntBytes(t.name)

\* Integer division as C++ has it: the quotient truncated toward zero.
TruncDiv(a, b) == IF a >= 0 THEN a \div b ELSE 0 - ((0 - a) \div b)

\* An array: type, length, offset and two buffers, each an object with an
\* identity.  Slot offset + i of the buffers is element i.
MakeArray(type, offset, is_valid, values) ==
    [type |-> type, length |-> Len(values) - offset, offset |-> offset,
     buffers |-> <<[id |-> "validity", slots |-> is_valid],
                   [id |-> "values", slots |-> values]>>]

IsValidAt(arr, i) == arr.buffers[1].slots[arr.offset + i]

ValueAt(arr, i) == arr.buffers[2].slots[arr.offset + i]

\* The null positions of an array.
NullPositions(arr) == {i \in 1 .. arr.length : ~IsValidAt(arr, i)}

\* The cast rules.  A rule gives, for one value, the value of the target
\* type and whether the value got lost on the way.
ZeroCopyRule(in, out) ==
    \/ in = out
    \/ /\ IsIntegerType(in)
       /\ out.name \in {"date32", "date64", "time32", "time64", "timestamp"}
       /\ PhysicalBytes(in) = PhysicalBytes(out)

IntegerRule(in, out) ==
    /\ in.name \in {"int8", "uint8", "int16", "uint16"}
    /\ out.name \in {"int8", "uint8", "int16", "uint16"}
    /\ in # out

TimestampRule(in, out) ==
    /\ in.name = "timestamp" /\ out.name = "timestamp" /\ in # out

DateRule(in, out) ==
    /\ in.name = "timestamp" /\ out.name \in {"date32", "date64"}

RECURSIVE Power(_, _)
Power(b, n) == IF n = 0 THEN 1 ELSE b * Power(b, n - 1)

\* The ratio of two units.
Ratio(u, v) ==
    IF UnitRank(u) >= UnitRank(v)
    THEN Power(UnitRatio, UnitRank(u) - UnitRank(v))
    ELSE Power(UnitRatio, UnitRank(v) - UnitRank(u))

\* The division rounded down instead of truncated.
ShiftUnitFloor(u, v, x) ==
    IF UnitRank(u) <= UnitRank(v) THEN x * Ratio(u, v) ELSE x \div Ratio(u, v)

\* timestamp(u) to timestamp(v): times the ratio when u is the coarser
\* unit, divided by it otherwise.
ShiftUnit(u, v, x) ==
    IF UnitRank(u) <= UnitRank(v) THEN x * Ratio(u, v) ELSE TruncDiv(x, Ratio(u, v))

\* The ticks of unit u in a day.
TicksInDay(u) == SecondsInDay * Ratio("s", u)

\* One value by the rule of the two types.
ConvertValue(in, out, x) ==
    IF IntegerRule(in, out) THEN StaticCast(out.name, x)
    ELSE IF TimestampRule(in, out) THEN ShiftUnit(in.unit, out.unit, x)
    ELSE IF DateRule(in, out)
    THEN IF out.name = "date32" THEN TruncDiv(x, TicksInDay(in.unit))
         ELSE TruncDiv(x, TicksInDay(in.unit)) * TicksInDay("ms")
    ELSE x

\* Whether the value got lost: an integer that does not come back from the
\* target type, a time with sub-units the target unit has no place for.
LosesValue(in, out, x) ==
    IF IntegerRule(in, out) THEN StaticCast(in.name, StaticCast(out.name, x)) # x
    ELSE IF TimestampRule(in, out)
    THEN UnitRank(in.unit) > UnitRank(out.unit) /\ x % Ratio(in.unit, out.unit) # 0
    ELSE IF DateRule(in, out) THEN x % TicksInDay(in.unit) # 0
    ELSE FALSE

\* The option that lets the rule lose values.
Allowed(in, out, options) ==
    IF IntegerRule(in, out) THEN options.allow_int_overflow
    ELSE options.allow_time_truncate

\* Checks that look at every element, the null ones too.
CheckedPositionsWithNulls(arr) == 1 .. arr.length

\* The slots whose values the checks of the cast look at: the elements
\* that are not null.
CheckedPositions(arr) == {i \in 1 .. arr.length : IsValidAt(arr, i)}

\* The value buffer of the result of a cast that converts: the converted
\* elements at the input's offset.
ConvertedBuffer(arr, out_type) ==
    [id |-> "casted",
     slots |-> [k \in 1 .. Len(arr.buffers[2].slots) |->
                   IF k > arr.offset
                   THEN ConvertValue(arr.type, out_type, arr.buffers[2].slots[k])
                   ELSE 0]]

\* A result that starts at slot 0 of the input's validity buffer.
ConvertedArrayAtOffsetZero(arr, out_type) ==
    [type |-> out_type, length |-> arr.length, offset |-> 0,
     buffers |-> <<arr.buffers[1], ConvertedBuffer(arr, out_type)>>]

\* The result array of a cast that converts: the input's length, offset
\* and validity buffer, and the converted values.
ConvertedArray(arr, out_type) ==
    [type |-> out_type, length |-> arr.length, offset |-> arr.offset,
     buffers |-> <<arr.buffers[1], ConvertedBuffer(arr, out_type)>>]

\* A result with a copy of the input's value buffer.
ZeroCopyArrayCopies(arr, out_type) ==
    [arr EXCEPT !.type = out_type, !.buffers[2].id = "casted"]

\* The result array of a zero-copy cast: the input with the other type.
ZeroCopyArray(arr, out_type) == [arr EXCEPT !.type = out_type]

\* compute::Cast(ctx, array, out_type, options, &out)
CastArray(arr, out_type, options) ==
    IF ZeroCopyRule(arr.type, out_type)
    THEN [status |-> "OK", array |-> ZeroCopyArray(arr, out_type)]
    ELSE IF ~(\/ IntegerRule(arr.type, out_type)
              \/ TimestampRule(arr.type, out_type)
              \/ DateRule(arr.type, out_type))
    THEN [status |-> "NotImplemented", array |-> arr]
    ELSE IF /\ ~Allowed(arr.type, out_type, options)
            /\ \E i \in CheckedPositions(arr) :
                   LosesValue(arr.type, out_type, ValueAt(arr, i))
    THEN [status |-> "Invalid", array |-> arr]
    ELSE [status |-> "OK", array |-> ConvertedArray(arr, out_type)]


\* SpecCastArray: the casts of the tests, one call each.

Timestamp(u) == Type("timestamp", u)

\* The casts without a copy (SameTypeZeroCopy, DateTimeZeroCopy and the
\* zero copy of TimestampToTimestamp).
ZeroCopyCases ==
    {<<Plain("int32"), Plain("int32")>>,
     <<Timestamp("s"), Timestamp("s")>>,
     <<Plain("int32"), Type("time32", "s")>>,
     <<Plain("int32"), Plain("date32")>>,
     <<Plain("int64"), Type("time64", "us")>>,
     <<Plain("int64"), Plain("date64")>>,
     <<Plain("int64"), Timestamp("us")>>}

\* The casts that convert (ToIntDowncastSafe, TimestampToTimestamp,
\* TimestampToDate32_Date64) and one without a rule (UnsupportedTarget).
ConvertCases ==
    {<<Plain("int16"), Plain("int8")>>, <<Plain("int16"), Plain("uint8")>>}
        \cup {<<Timestamp(u), Timestamp(v)>> : u \in {"s", "ms", "us"}, v \in {"s", "ms", "us"}}
        \cup {<<Timestamp(u), Plain(d)>> : u \in {"s", "ms"}, d \in {"date32", "date64"}}
        \cup {<<Plain("int32"), Plain("utf8")>>}

\* The values the arrays of a cast are made of: around the bounds of the
\* target type, around a multiple of the ratio, around a day.
CaseValues(in, out) ==
    IF IntegerRule(in, out)
    THEN {0 - 1, 0, MaxOf(out.name), MaxOf(out.name) + 1}
    ELSE IF TimestampRule(in, out) /\ UnitRank(in.unit) > UnitRank(out.unit)
    THEN {0, Ratio(in.unit, out.unit), Ratio(in.unit, out.unit) + 1,
          0 - (Ratio(in.unit, out.unit) + 1)}
    ELSE IF DateRule(in, out)
    THEN {0, TicksInDay(in.unit), TicksInDay(in.unit) + 1,
          0 - (TicksInDay(in.unit) + 1)}
    ELSE {0 - 1, 0, 1, 2}

CastInputs(in, out) ==
    {MakeArray(in, offset, is_valid, values) :
        offset \in 0 .. MaxCastOffset,
        is_valid \in [1 .. CastSlots -> BOOLEAN],
        values \in [1 .. CastSlots -> CaseValues(in, out)]}

CastOptionsSet ==
    {[allow_int_overflow |-> b, allow_time_truncate |-> b] : b \in BOOLEAN}

\* CastOptions as the tests leave it by default.
DefaultCastOptions == [allow_int_overflow |-> FALSE, allow_time_truncate |-> FALSE]

\* The array with the value x in every null slot.
WithNullSlots(arr, x) ==
    [arr EXCEPT !.buffers[2].slots =
        [k \in 1 .. Len(@) |-> IF arr.buffers[1].slots[k] THEN @[k] ELSE x]]

InitCastArray ==
    /\ NoHashKernel
    /\ NoDictEncoder

\* CheckCase, CheckFails: one cast, of an array or of a slice of it.
CastArrayCall ==
    /\ last_call = NoCall
    /\ \E case \in ConvertCases :
           \E input \in CastInputs(case[1], case[2]) :
               \E options \in CastOptionsSet :
                   last_call' = [op |-> "Cast", input |-> input, out_type |-> case[2],
                                 options |-> options,
                                 result |-> CastArray(input, case[2], options)]
    /\ UNCHANGED <<hashVars, dictVars, bdict, dbp, dlba, dba, bhash>>

\* CheckZeroCopy
CheckZeroCopy ==
    /\ last_call = NoCall
    /\ \E case \in ZeroCopyCases :
           \E input \in CastInputs(case[1], case[2]) :
               last_call' = [op |-> "CheckZeroCopy", input |-> input,
                             out_type |-> case[2], options |-> DefaultCastOptions,
                             result |-> CastArray(input, case[2], DefaultCastOptions)]
    /\ UNCHANGED <<hashVars, dictVars, bdict, dbp, dlba, dba, bhash>>

\* OverflowInNullSlot and the last cases of TimestampToDate32_Date64: the
\* same cast of two arrays that differ in the values of the null slots.
CastNullSlots ==
    /\ last_call = NoCall
    /\ \E case \in ConvertCases :
           \E input \in CastInputs(case[1], case[2]) :
               \E x \in CaseValues(case[1], case[2]) :
                   \E options \in CastOptionsSet :
                       last_call' =
                           [op |-> "CastNullSlots", input |-> input,
                            other |-> WithNullSlots(input, x),
                            out_type |-> case[2], options |-> options,
                            result |-> CastArray(input, case[2], options),
                            other_result |-> CastArray(WithNullSlots(input, x),
                                                       case[2], options)]
    /\ UNCHANGED <<hashVars, dictVars, bdict, dbp, dlba, dba, bhash>>

NextCastArray == CastArrayCall \/ CheckZeroCopy \/ CastNullSlots

SpecCastArray == InitCastArray /\ [][NextCastArray]_vars


\* C31: two inputs of a cast that differ only in the values of their null
\* slots come out alike: the same status, and on success the same values
\* at the positions that are not null; for the integer overflow checks and
\* for the time truncation checks.
C31_NullSlotsDoNotMatter ==
    last_call.op = "CastNullSlots" =>
        /\ last_call.result.status = last_call.other_result.status
        /\ last_call.result.status = "OK" =>
               \A i \in 1 .. last_call.input.length :
                   IsValidAt(last_call.input, i) =>
                       ValueAt(last_call.result.array, i)
                           = ValueAt(last_call.other_result.array, i)

\* int16 to int8 without overflow allowed: a null slot holds a value that
\* does not fit in one input and 0 in the other, and both casts succeed.
C31_Witness ==
    /\ last_call.op = "CastNullSlots"
    /\ last_call.out_type = Plain("int8")
    /\ ~last_call.options.allow_int_overflow
    /\ last_call.input.offset = 0
    /\ ~IsValidAt(last_call.input, 1) /\ IsValidAt(last_call.input, 2)
    /\ ValueAt(last_call.input, 1) = MaxOf("int8") + 1
    /\ ValueAt(last_call.other, 1) = 0
    /\ last_call.result.status = "OK"
    /\ last_call.other_result.status = "OK"

\* C32: a cast of an array to its own type, or of an integer array to a
\* date, time or timestamp type of the same width, succeeds with an array
\* equal to the input whose validity buffer and value buffer are the
\* buffer objects of the input.
C32_ZeroCopyKeepsTheBuffers ==
    (/\ last_call.op = "CheckZeroCopy"
     /\ ZeroCopyRule(last_call.input.type, last_call.out_type)) =>
        /\ last_call.result.status = "OK"
        /\ last_call.result.array.type = last_call.out_type
        /\ last_call.result.array.length = last_call.input.length
        /\ last_call.result.array.offset = last_call.input.offset
        /\ last_call.result.array.buffers[1].id = last_call.input.buffers[1].id
        /\ last_call.result.array.buffers[2].id = last_call.input.buffers[2].id
        /\ last_call.result.array.buffers[1].slots = last_call.input.buffers[1].slots
        /\ last_call.result.array.buffers[2].slots = last_call.input.buffers[2].slots

\* A slice of an int64 array with a null, cast to timestamp.
C32_Witness ==
    /\ last_call.op = "CheckZeroCopy"
    /\ last_call.input.type = Plain("int64")
    /\ last_call.out_type = Timestamp("us")
    /\ last_call.input.offset = 1
    /\ NullPositions(last_call.input) = {1}
    /\ last_call.result.status = "OK"
    /\ last_call.result.array.buffers[2].id = "values"

\* C33: timestamp(u) to timestamp(v) multiplies every value that is not
\* null by the ratio of the units when u is the coarser one; when u is the
\* finer one it divides by the ratio: with allow_time_truncate = false the
\* cast succeeds exactly when every such value is a multiple of the
\* ratio and is Invalid otherwise, with allow_time_truncate = true it
\* truncates.
C33_TimestampUnits ==
    (/\ last_call.op = "Cast"
     /\ TimestampRule(last_call.input.type, last_call.out_type)) =>
        LET u == last_call.input.type.unit
            v == last_call.out_type.unit
            ratio == Ratio(u, v)
            in == [i \in 1 .. last_call.input.length |-> ValueAt(last_call.input, i)]
            valid == {i \in 1 .. last_call.input.length : IsValidAt(last_call.input, i)}
            ok == last_call.result.status = "OK"
            out == [i \in 1 .. last_call.input.length |->
                       ValueAt(last_call.result.array, i)]
        IN  IF UnitRank(u) < UnitRank(v)
            THEN ok /\ \A i \in valid : out[i] = in[i] * ratio
            ELSE IF last_call.options.allow_time_truncate
            THEN ok /\ \A i \in valid :
                           /\ out[i] * ratio <= in[i] \/ in[i] < 0
                           /\ out[i] * ratio >= in[i] \/ in[i] > 0
                           /\ (in[i] - out[i] * ratio) < ratio
                           /\ (out[i] * ratio - in[i]) < ratio
            ELSE /\ ok <=> \A i \in valid : in[i] % ratio = 0
                 /\ ~ok => last_call.result.status = "Invalid"
                 /\ ok => \A i \in valid : out[i] * ratio = in[i]

\* Milliseconds to seconds with truncation allowed: a negative value with
\* sub-units comes out truncated toward zero.
C33_Witness ==
    /\ last_call.op = "Cast"
    /\ last_call.input.type = Timestamp("ms")
    /\ last_call.out_type = Timestamp("s")
    /\ last_call.options.allow_time_truncate
    /\ last_call.input.offset = 0
    /\ IsValidAt(last_call.input, 1)
    /\ ValueAt(last_call.input, 1) = 0 - (UnitRatio + 1)
    /\ last_call.result.status = "OK"
    /\ ValueAt(last_call.result.array, 1) = 0 - 1

\* C34: every cast that succeeds returns an array of the length of the
\* input with null at the positions where the input has null, and nowhere
\* else, also when the input is a slice.
C34_LengthAndNullsKept ==
    (/\ last_call.op \in {"Cast", "CheckZeroCopy"}
     /\ last_call.result.status = "OK") =>
        /\ last_call.result.array.length = last_call.input.length
        /\ NullPositions(last_call.result.array) = NullPositions(last_call.input)

\* A cast of a slice whose first element is null and whose second is
\* not, while slot 0 of the buffers, outside the slice, is valid.
C34_Witness ==
    /\ last_call.op = "Cast"
    /\ last_call.input.type = Plain("int16")
    /\ last_call.input.offset = 1
    /\ last_call.input.buffers[1].slots = <<TRUE, FALSE, TRUE>>
    /\ last_call.result.status = "OK"
    /\ NullPositions(last_call.result.array) = {1}

\* ------------------------------------------------------------------------
\* The load of the hash table

PowerOfTwo(n) == \E e \in 0 .. (2 * HashBits) : n = 2 ^ e

\* A step in which HASH_INNER_LOOP has inserted a new value and has come to
\* its end (a doubling included).
InsertionCompleted ==
    /\ cur.active /\ cur'.active /\ cur'.res = "ok"
    /\ Len(dict_values') = Len(dict_values) + 1

EmptySlots == {j \in DOMAIN hash_slots_ : hash_slots_[j] = kHashSlotEmpty}

\* The size and the load of the table, and the probe of HASH_INNER_LOOP for
\* every value, which comes to an end.
TableInvariant ==
    /\ PowerOfTwo(hash_table_size_) /\ hash_table_size_ >= kInitialHashTableSize
    /\ DOMAIN hash_slots_ = 0 .. (hash_table_size_ - 1)
    /\ mod_bitmask_ = hash_table_size_ - 1
    /\ kMaxHashTableLoadDen * Cardinality(Range(dict_values))
          <= kMaxHashTableLoadNum * hash_table_size_
    /\ EmptySlots # {}
    /\ \A v \in Values :
          ProbeLoop(K, v, BitAnd(HashValue(v), mod_bitmask_), 0) # NoSlot

\* After every completed insertion the table has the size, mask and load of
\* the claim and every lookup probe ends.
LoadInvariantAfterInsertion == [][InsertionCompleted => TableInvariant']_vars

\* C35: after every completed insertion into a primitive hash kernel the
\* slot array has a power of two (at least kInitialHashTableSize) of slots,
\* mod_bitmask_ is that number less one, the distinct values are at most
\* 0.7 times that number, an empty slot exists, and every probe loop has come
\* to an end at a slot of the table: the lookup probes and the probes of the
\* rehash, none of which has left the slot array.
C35_LoadKeepsProbesFinite ==
    [][InsertionCompleted => (TableInvariant' /\ "rehash" \notin oob_writes')]_vars

\* ------------------------------------------------------------------------
\* DictionaryEncode and the first kernel output

\* The step in which DictionaryEncode, back from InvokeHash with an OK
\* status, reads indices_outputs[0] to build the dictionary type.
ReadsFirstOutput ==
    /\ fn = "DictionaryEncode"
    /\ phase = "calls" /\ phase' # "calls" /\ chunks' = chunks
    /\ GetDictionaryResult(K).res = "ok"

\* C40: when DictionaryEncode reads element 0 of the index outputs to build
\* the dictionary type, the list of index outputs is not empty, for an array
\* and for a chunked array of any number of chunks, zero included.
C40_FirstOutputExists == [][ReadsFirstOutput => kernel_outputs # <<>>]_vars

\* ------------------------------------------------------------------------
\* SpecDictionary: the arrays that GetDictionary hands out

MaxDictionaries == 2

\* What a holder of the array d reads: d.length values of the buffer that
\* GetDictionary has put into the array, which is dict_.buffer itself.
ArrayValues(d) ==
    [i \in 1 .. d.length |-> IF i <= Len(dict_values) THEN dict_values[i] ELSE Null]

InitDictionary ==
    /\ type_id \in KernelTypes
    /\ action \in {"Unique", "DictEncode"}
    /\ allow_expand = TRUE
    /\ FreshKernel
    /\ fn = "none" /\ kind = "none" /\ chunks = <<>> /\ kernel_outputs = <<>>
    /\ phase = "none" /\ result = NoResult /\ cast_result = <<>>
    /\ NoDictEncoder

\* HashKernelImpl::Append(input), whole.
DictionaryAppend ==
    /\ proc = "running"
    /\ napp < MaxAppends
    /\ \E arr \in Arrays(type_id, MaxTotal - Len(log)) :
         \E o \in HashTableAppend([K EXCEPT !.napp = napp + 1], arr) :
            /\ SetK(o.k)
            /\ proc' = ProcAfter(o.res)
            /\ status' = IF o.res \in {"crash", "hang"} THEN status
                         ELSE AppendResult(o.res).status
            /\ failed' = IF o.res = "ok" THEN failed
                         ELSE failed \cup {[app |-> napp + 1, res |-> o.res]}
    /\ napp' = napp + 1
    /\ UNCHANGED <<dictVars, moreVars, type_id, action, allow_expand, lock_, cur, flushed,
                   dictionaries, invokeVars>>

\* HashKernelImpl::GetDictionary(out): the array that is handed out, with the
\* values it holds at that moment.
DictionaryGet ==
    /\ proc = "running"
    /\ Len(dictionaries) < MaxDictionaries
    /\ LET r == GetDictionaryResult(K) IN
         /\ proc' = ProcAfter(r.res)
         /\ dictionaries' =
               IF r.res = "ok"
               THEN Append(dictionaries,
                           [length |-> r.length,
                            values |-> SubSeq(dict_values, 1, r.length)])
               ELSE dictionaries
    /\ UNCHANGED <<dictVars, moreVars, type_id, action, allow_expand, kernelVars, lock_, cur,
                   status, flushed, napp, failed, invokeVars>>

NextDictionary == DictionaryAppend \/ DictionaryGet

SpecDictionary == InitDictionary /\ [][NextDictionary]_vars

MaxBinaryLen == 3

MaxBinaryAppends == 2

\* The values of the elements: byte strings, and NullKey for a null element.
ByteKeys == {<<>>, <<1>>, <<2>>, <<1, 2>>}

NullKey == <<Null>>

BinaryElems(maxlen) == UNION {[1 .. n -> ByteKeys \cup {NullKey}] : n \in 0 .. maxlen}

KeyBytes(e) == IF e = NullKey THEN <<>> ELSE e

\* A binary array of the elements: validity bitmap, length + 1 offsets and
\* the bytes of the elements one after the other; a null has no bytes.
BinaryArray(elems) ==
    LET bytes == [i \in 1 .. Len(elems) |-> KeyBytes(elems[i])] IN
    [length |-> Len(elems),
     is_valid |-> [i \in 1 .. Len(elems) |-> elems[i] # NullKey],
     offsets |-> [i \in 1 .. (Len(elems) + 1) |-> Len(Flatten(SubSeq(bytes, 1, i - 1)))],
     data |-> Flatten(bytes)]

\* HashUtil::Hash(data, length, 0): a fixed function of the bytes
RECURSIVE ByteSum(_)
ByteSum(bytes) == IF bytes = <<>> THEN 0 ELSE Head(bytes) + ByteSum(Tail(bytes))

BinaryHashValue(bytes) == HashValue(Len(bytes) + ByteSum(bytes))

\* The kernel after its constructor, and HashTable::Init on first use.
NewBinaryKernel ==
    [status |-> "ok", initialized_ |-> FALSE, hash_slots_ |-> NewHashTable(0),
     hash_table_size_ |-> 0, mod_bitmask_ |-> 0,
     dict |-> <<>>, indices |-> <<>>, log |-> <<>>, napp |-> 0]

BinaryInit(k) ==
    [k EXCEPT !.hash_slots_ = NewHashTable(kInitialHashTableSize),
              !.hash_table_size_ = kInitialHashTableSize,
              !.mod_bitmask_ = kInitialHashTableSize - 1,
              !.initialized_ = TRUE]

\* position = *offsets++; length = *offsets - position: the offsets pointer
\* has moved once for every element before i that was not null.
OffsetsRead(arr, i) ==
    LET p == Cardinality({h \in 1 .. (i - 1) : arr.is_valid[h]}) IN
    <<arr.offsets[p + 1], arr.offsets[p + 2]>>

\* A pointer that moves at every element, null or not.
OffsetsReadAtElement(arr, i) == <<arr.offsets[i], arr.offsets[i + 1]>>

\* memcmp(value, dict_data + dict_offsets[slot], length) = 0; bytes read
\* behind the stored ones are what the outcome makes of them.
DictBytesEqual(k, slot, value, outcome) ==
    LET stored == Flatten(SubSeq(k.dict, slot + 1, Len(k.dict))) IN
    IF Len(value) <= Len(stored) THEN SubSeq(stored, 1, Len(value)) = value
    ELSE outcome = "garbage"

\* The probe loop: slot_length was read once, before the loop.
RECURSIVE BinaryProbe(_, _, _, _, _, _)
BinaryProbe(k, value, slot_length, j, n, outcome) ==
    LET slot == k.hash_slots_[j] IN
    IF slot = kHashSlotEmpty THEN j
    ELSE IF slot_length = Len(value) /\ DictBytesEqual(k, slot, value, outcome) THEN j
    ELSE IF n >= k.hash_table_size_ THEN NoSlot
    ELSE BinaryProbe(k, value, slot_length,
                     IF j + 1 = k.hash_table_size_ THEN 0 ELSE j + 1, n + 1, outcome)

\* The loop of DoubleTableSize over the old slots.
RECURSIVE BinaryRehashFrom(_, _, _, _)
BinaryRehashFrom(k, new_size, i, acc) ==
    IF i >= k.hash_table_size_ \/ acc.hang THEN acc
    ELSE LET index == k.hash_slots_[i] IN
         IF index = kHashSlotEmpty THEN BinaryRehashFrom(k, new_size, i + 1, acc)
         ELSE LET j0 == BitAnd(BinaryHashValue(k.dict[index + 1]), new_size - 1)
                  j == RehashProbe(acc.slots, new_size, k.hash_table_size_, j0, 0)
              IN IF j = NoSlot THEN [acc EXCEPT !.hang = TRUE]
                 ELSE IF j = OutOfBounds
                 THEN BinaryRehashFrom(k, new_size, i + 1, [acc EXCEPT !.oob = TRUE])
                 ELSE BinaryRehashFrom(k, new_size, i + 1, [acc EXCEPT !.slots[j] = index])

BinaryDoubleTableSize(k, outcome) ==
    LET new_size == k.hash_table_size_ * 2
        r == BinaryRehashFrom(k, new_size, 0,
                              [slots |-> NewHashTable(new_size), oob |-> FALSE, hang |-> FALSE])
    IN  IF r.hang THEN [k EXCEPT !.status = "hung"]
        ELSE IF r.oob /\ outcome = "crash" THEN [k EXCEPT !.status = "crashed"]
        ELSE [k EXCEPT !.hash_slots_ = r.slots,
                       !.hash_table_size_ = new_size,
                       !.mod_bitmask_ = new_size - 1]

\* The body of the loop of Append for element i of arr.
BinaryAppendElem(k, arr, i, outcome) ==
    IF ~arr.is_valid[i]
    THEN [k EXCEPT !.indices = Append(@, Null),
                   !.log = Append(@, [app |-> k.napp, i |-> i, is_null |-> TRUE])]
    ELSE LET o == OffsetsRead(arr, i)
             position == o[1]
             length == o[2] - position
             value == SubSeq(arr.data, position + 1, position + length)
             j0 == BitAnd(BinaryHashValue(value), k.mod_bitmask_)
             slot0 == k.hash_slots_[j0]
             \* dict_offsets[slot + 1] - dict_offsets[slot], read before slot
             \* has been compared with kHashSlotEmpty
             sentinel == slot0 = kHashSlotEmpty
             slot_length == IF sentinel THEN Null ELSE Len(k.dict[slot0 + 1])
             e == [app |-> k.napp, i |-> i, is_null |-> FALSE,
                   position |-> position, length |-> length, key |-> value,
                   range |-> OffsetsReadAtElement(arr, i),
                   sentinel_read |-> sentinel]
             k1 == [k EXCEPT !.log = Append(@, e)]
         IN  IF sentinel /\ outcome = "crash" THEN [k1 EXCEPT !.status = "crashed"]
             ELSE LET j == BinaryProbe(k1, value, slot_length, j0, 0, outcome) IN
                  IF j = NoSlot THEN [k1 EXCEPT !.status = "hung"]
                  ELSE LET slot == k1.hash_slots_[j] IN
                       IF slot # kHashSlotEmpty
                       THEN [k1 EXCEPT !.indices = Append(@, slot)]
                       ELSE LET k2 == [k1 EXCEPT !.hash_slots_[j] = Len(k1.dict),
                                                 !.dict = Append(@, value),
                                                 !.indices = Append(@, Len(k1.dict))]
                            IN  IF kMaxHashTableLoadDen * Len(k2.dict)
                                      > kMaxHashTableLoadNum * k2.hash_table_size_
                                THEN BinaryDoubleTableSize(k2, outcome)
                                ELSE k2

RECURSIVE BinaryAppendLoop(_, _, _, _)
BinaryAppendLoop(k, arr, i, outcome) ==
    IF i > arr.length \/ k.status # "ok" THEN k
    ELSE LET k1 == CHOOSE r \in {BinaryAppendElem(k, arr, i, outcome)} : TRUE
         IN  BinaryAppendLoop(k1, arr, i + 1, outcome)

\* HashTableKernel<binary>::Append(arr)
BinaryAppend(k, arr, outcome) ==
    LET k1 == IF k.initialized_ THEN k ELSE BinaryInit(k)
    IN  BinaryAppendLoop([k1 EXCEPT !.napp = @ + 1], arr, 1, outcome)

InitBinary == NoHashKernel /\ NoDictEncoder

BinaryNew ==
    /\ bhash = NoDelta
    /\ bhash' = NewBinaryKernel
    /\ UNCHANGED <<hashVars, dictVars, last_call, bdict, dbp, dlba, dba>>

BinaryAppendCall ==
    /\ bhash.status = "ok"
    /\ bhash.napp < MaxBinaryAppends
    /\ \E elems \in BinaryElems(MaxBinaryLen - Len(bhash.log)) :
         \E outcome \in UndefinedOutcomes :
            bhash' = BinaryAppend(bhash, BinaryArray(elems), outcome)
    /\ UNCHANGED <<hashVars, dictVars, last_call, bdict, dbp, dlba, dba>>

NextBinary == BinaryNew \/ BinaryAppendCall

SpecBinary == InitBinary /\ [][NextBinary]_vars

\* C37: for every element i that is not null, the variable-length kernel's
\* Append hashes and compares the bytes [offsets[i], offsets[i+1]) of the
\* input, whatever elements before i are null, and it reads the dictionary
\* offsets at a probed slot only when the slot is not the empty sentinel.
C37_KeyIsTheElementsBytes ==
    bhash.status # "none" =>
        \A p \in 1 .. Len(bhash.log) :
            LET e == bhash.log[p] IN
            ~e.is_null =>
                /\ e.position = e.range[1]
                /\ e.position + e.length = e.range[2]
                /\ ~e.sentinel_read

\* ------------------------------------------------------------------------
\* The remaining count of the DictionaryDecoder

\* What the call in last_call has returned: Decode returns max_values as it
\* stands after the min, DecodeSpaced returns decoded_values, which equals
\* its argument num_values when it does not throw.
ValuesReturned ==
    IF last_call.op = "Decode" THEN last_call.after.ret ELSE last_call.num_values

\* C38: every Decode and every DecodeSpaced of a DictionaryDecoder that
\* succeeds takes the number of values it returned off the remaining count
\* num_values_ (values_left), which never goes below zero, in whatever order
\* the two are called after SetData.
C38_BothDecodesCountDown ==
    (last_call.op \in {"Decode", "DecodeSpaced"} /\ last_call.after.stage = "data") =>
        /\ last_call.after.num_values_ = last_call.before.num_values_ - ValuesReturned
        /\ last_call.after.num_values_ >= 0

\* ------------------------------------------------------------------------
\* The first Decode after SetData

\* The Decode in last_call is the first one since SetData: no block header
\* of the page had been read before it.
FirstDecodeOfPage ==
    /\ dbp.status # "none"
    /\ last_call.op = "Decode"
    /\ last_call.before.headers = 0

\* C39: the first Decode after SetData, on a new DeltaBitPackDecoder or on
\* one that has decoded an earlier page, reads the block header of the new
\* page before it returns anything, and the first value it returns is the
\* first_value of that header; it uses no bit width, min_delta, mini-block
\* index or running value of the page before.
C39_FirstDecodeReadsTheHeader ==
    FirstDecodeOfPage =>
        /\ dbp.status \in {"ok", "eof"}
        /\ dbp.status = "ok" =>
               /\ dbp.headers >= 1
               /\ dbp.out # <<>>
               /\ dbp.out[1] = [block |-> 1, pos |-> 0,
                                value |-> WrapTo(CTypeBits(dbp.T), dbp.page[1].first_value)]

====
